---------------------------- MODULE Spec2Model ----------------------------
(***************************************************************************)
(* A model of the grocery-prices shopping calculator: the durable TTL      *)
(* caches (SimpleCache, PackageSizeCache), the package resolver            *)
(* (getPackageInfo and its helpers), the quantity parser, the unit         *)
(* converter and the usage calculator (calculatePackageUsage).             *)
(*                                                                         *)
(* JavaScript strings are modelled as sequences of one-character strings,  *)
(* so that toLowerCase, trim, includes and the regular expressions of the  *)
(* source are computed character by character.  JavaScript numbers are     *)
(* modelled as non-negative rationals [n, d] extended with Infinity (1/0)  *)
(* and NaN (0/0); rounding of binary floating point is not modelled.       *)
(* Prices are counted in cents: 5.99 is Num(599, 100).                     *)
(***************************************************************************)
EXTENDS Integers, Sequences, FiniteSets, TLC

VARIABLES
    now,                  \* Date.now(), in clock ticks
    SPOONACULAR_API_KEY,  \* process.env.SPOONACULAR_API_KEY is set (fixed at start)
    packageSizeCache,     \* the PackageSizeCache singleton: [cache, file]
    ingredientPriceCache, \* the SimpleCache singleton: [cache, file]
    calls,                \* the getPackageInfo invocations, one per slot
    prev,                 \* history: per cache key, the last descriptor a call computed
    cacheLog,             \* history: the last set / get / clear issued on a cache directly
    usage,                \* the calculatePackageUsage invocation under study
    shopping              \* the calculateShoppingCost invocation under study

vars == <<now, SPOONACULAR_API_KEY, packageSizeCache, ingredientPriceCache,
          calls, prev, cacheLog, usage, shopping>>

(***************************************************************************)
(* Bounds of the model.                                                    *)
(***************************************************************************)
\* The clock stops at MaxTime.
MaxTime == 3
\* The constructor argument ttl of each cache, in clock ticks (the defaults
\* are 30 days and 24 hours in milliseconds).
PackageTtl == 1
PriceTtl == 1
\* The longest ingredient list calculateShoppingCost is given, which is also
\* the number of getPackageInfo invocations that can be in flight.
MaxIngredients == 2

\* null and undefined, as records so that they compare with the records they stand in for
Null == [null |-> TRUE]
Absent == [undefined |-> TRUE]

(***************************************************************************)
(* Strings.                                                                *)
(***************************************************************************)
UpperChars == <<"A", "B", "C", "D", "E", "F", "G", "H", "I", "J", "K", "L", "M",
                "N", "O", "P", "Q", "R", "S", "T", "U", "V", "W", "X", "Y", "Z">>
LowerChars == <<"a", "b", "c", "d", "e", "f", "g", "h", "i", "j", "k", "l", "m",
                "n", "o", "p", "q", "r", "s", "t", "u", "v", "w", "x", "y", "z">>
DigitChars == <<"0", "1", "2", "3", "4", "5", "6", "7", "8", "9">>

Range(s) == {s[i] : i \in DOMAIN s}

IsUpper(c) == c \in Range(UpperChars)
IsLetter(c) == c \in Range(UpperChars) \cup Range(LowerChars)
IsDigit(c) == c \in Range(DigitChars)
\* \s of a regular expression, and what trim() strips
IsSpace(c) == c \in {" ", "\t", "\n"}
\* what the regular expression dot does not match
IsLineTerminator(c) == c = "\n"

LowerChar(c) ==
    IF IsUpper(c)
    THEN LowerChars[CHOOSE i \in DOMAIN UpperChars : UpperChars[i] = c]
    ELSE c

\* String.prototype.toLowerCase
ToLowerCase(s) == [i \in 1..Len(s) |-> LowerChar(s[i])]

\* String.prototype.trim
Trim(s) ==
    LET keep == {i \in DOMAIN s : ~IsSpace(s[i])}
    IN IF keep = {} THEN <<>>
       ELSE LET lo == CHOOSE i \in keep : \A j \in keep : i <= j
                hi == CHOOSE i \in keep : \A j \in keep : j <= i
            IN SubSeq(s, lo, hi)

\* String.prototype.includes
Includes(s, p) == \E i \in 1..(Len(s) - Len(p) + 1) : SubSeq(s, i, i + Len(p) - 1) = p
                  \/ p = <<>>

DigitValue(c) == (CHOOSE i \in DOMAIN DigitChars : DigitChars[i] = c) - 1

(***************************************************************************)
(* Numbers.                                                                *)
(***************************************************************************)
RECURSIVE Gcd(_, _)
Gcd(a, b) == IF b = 0 THEN a ELSE Gcd(b, a % b)

NaN == [n |-> 0, d |-> 0]
Infinity == [n |-> 1, d |-> 0]

\* the number n / d in lowest terms
Reduced(n, d) ==
    IF d = 0 THEN (IF n = 0 THEN NaN ELSE Infinity)
    ELSE [n |-> n \div Gcd(n, d), d |-> d \div Gcd(n, d)]

\* the number n / d, its operands evaluated once
Num(n, d) == CHOOSE r \in {Reduced(a, b) : a \in {n}, b \in {d}} : TRUE

IsNaN(x) == x = NaN
Mul(x, y) == Num(x.n * y.n, x.d * y.d)
Div(x, y) == Num(x.n * y.d, x.d * y.n)
\* x <= y of JavaScript: false when either side is NaN
Le(x, y) ==
    /\ ~IsNaN(x) /\ ~IsNaN(y)
    /\ IF x.d = 0 THEN y.d = 0
       ELSE IF y.d = 0 THEN TRUE
       ELSE x.n * y.d <= y.n * x.d
Gt(x, y) == ~IsNaN(x) /\ ~IsNaN(y) /\ ~Le(x, y)
\* a JavaScript number in a boolean context
Truthy(x) == ~IsNaN(x) /\ x.n # 0
One == Num(1, 1)
Zero == Num(0, 1)
\* Math.min(1, x)
MathMin1(x) ==
    CHOOSE r \in {IF IsNaN(v) THEN NaN ELSE IF Le(One, v) THEN One ELSE v : v \in {x}} : TRUE

RECURSIVE Pow10(_)
Pow10(k) == IF k = 0 THEN 1 ELSE 10 * Pow10(k - 1)

RECURSIVE DigitsValue(_)
\* the value of a run of decimal digits
DigitsValue(s) ==
    IF s = <<>> THEN 0
    ELSE 10 * DigitsValue(SubSeq(s, 1, Len(s) - 1)) + DigitValue(s[Len(s)])

\* the length of the longest prefix of s made of characters of the set cs
PrefixLen(s, cs) ==
    LET stops == {i \in DOMAIN s : s[i] \notin cs}
    IN IF stops = {} THEN Len(s)
       ELSE (CHOOSE i \in stops : \A j \in stops : i <= j) - 1

DigitSet == Range(DigitChars)

\* parseFloat on a string of digits and dots: the longest prefix that is a
\* decimal literal (digits, an optional dot, digits), NaN when it has no digit
ParseFloat(s) ==
    LET k == PrefixLen(s, DigitSet)
        ip == SubSeq(s, 1, k)
        afterDot == IF k < Len(s) /\ s[k + 1] = "." THEN SubSeq(s, k + 2, Len(s)) ELSE <<>>
        fp == SubSeq(afterDot, 1, PrefixLen(afterDot, DigitSet))
    IN IF ip = <<>> /\ fp = <<>> THEN NaN
       ELSE Num(DigitsValue(ip) * Pow10(Len(fp)) + DigitsValue(fp), Pow10(Len(fp)))

RECURSIVE NatToStr(_)
NatToStr(n) ==
    IF n < 10 THEN <<DigitChars[n + 1]>>
    ELSE NatToStr(n \div 10) \o <<DigitChars[(n % 10) + 1]>>

RECURSIVE FracToStr(_, _)
\* the decimal digits of r / d, 0 <= r < d, for a terminating expansion
FracToStr(r, d) ==
    IF r = 0 THEN <<>>
    ELSE <<DigitChars[((10 * r) \div d) + 1]>> \o FracToStr((10 * r) % d, d)

\* Number to string, as a template literal formats it (finite, terminating
\* decimals in plain notation)
NumToStr(x) ==
    IF IsNaN(x) THEN <<"N", "a", "N">>
    ELSE IF x.d = 0 THEN <<"I", "n", "f", "i", "n", "i", "t", "y">>
    ELSE NatToStr(x.n \div x.d)
         \o (IF x.n % x.d = 0 THEN <<>> ELSE <<".">> \o FracToStr(x.n % x.d, x.d))

(***************************************************************************)
(* Maps from string keys to items (a JavaScript Map, an object snapshot).  *)
(***************************************************************************)
EmptyMap == [k \in {} |-> Null]
MapPut(m, key, item) == [k \in DOMAIN m \cup {key} |-> IF k = key THEN item ELSE m[k]]
MapDelete(m, key) == [k \in DOMAIN m \ {key} |-> m[k]]

(***************************************************************************)
(* SimpleCache (src/utils/cacheService.js).  An instance is [cache, file]: *)
(* the in-memory Map and the content of the backing JSON file.             *)
(***************************************************************************)
\* JSON.stringify of a number: NaN and the infinities are written as null
JsonNumber(x) == IF x.d = 0 THEN Null ELSE x

\* what JSON.stringify writes of a cached value, as JSON.parse reads it back
JsonValue(value) ==
    [f \in DOMAIN value |->
        IF f = "price" /\ "d" \in DOMAIN value[f] THEN JsonNumber(value[f]) ELSE value[f]]

\* the content of the file after writeFileSync(JSON.stringify(cacheObj))
JsonSnapshot(cache) ==
    [key \in DOMAIN cache |->
        [value |-> JsonValue(cache[key].value), expiry |-> cache[key].expiry]]

\* the write of saveToFile throws and is caught: the file keeps its content
WriteFailed(before, after) == [after EXCEPT !.file = before.file]

SimpleCache_saveToFile(self) == [self EXCEPT !.file = JsonSnapshot(self.cache)]

\* the value set returns: line 24
SimpleCache_setReturn(key, value) == value

\* SimpleCache_set with a replaced entry keeping the expiry it had
SimpleCache_set_KeepExpiry(self, key, value, t) ==
    LET item == [value |-> value,
                 expiry |-> IF key \in DOMAIN self.cache THEN self.cache[key].expiry
                            ELSE t + PriceTtl]
    IN SimpleCache_saveToFile([self EXCEPT !.cache = MapPut(self.cache, key, item)])

SimpleCache_set(self, key, value, t) ==
    LET item == [value |-> value, expiry |-> t + PriceTtl]
    IN SimpleCache_saveToFile([self EXCEPT !.cache = MapPut(self.cache, key, item)])

\* SimpleCache_get with the expiry test written >= instead of >
SimpleCache_get_Eager(self, key, t) ==
    IF key \notin DOMAIN self.cache THEN [self |-> self, ret |-> Null]
    ELSE IF t >= self.cache[key].expiry
    THEN [self |-> SimpleCache_saveToFile([self EXCEPT !.cache = MapDelete(self.cache, key)]),
          ret |-> Null]
    ELSE [self |-> self, ret |-> self.cache[key].value]

\* SimpleCache_get that evicts every entry whose expiry has passed
SimpleCache_get_PurgeAll(self, key, t) ==
    LET live == {k \in DOMAIN self.cache : t <= self.cache[k].expiry}
        purged == [self EXCEPT !.cache = [k \in live |-> self.cache[k]]]
    IN [self |-> IF purged = self THEN self ELSE SimpleCache_saveToFile(purged),
        ret |-> IF key \in live THEN self.cache[key].value ELSE Null]

\* the cache after get(key) at time t, and the value get returns
SimpleCache_get(self, key, t) ==
    IF key \notin DOMAIN self.cache THEN [self |-> self, ret |-> Null]
    ELSE IF t > self.cache[key].expiry
    THEN [self |-> SimpleCache_saveToFile([self EXCEPT !.cache = MapDelete(self.cache, key)]),
          ret |-> Null]
    ELSE [self |-> self, ret |-> self.cache[key].value]

SimpleCache_clear(self) == SimpleCache_saveToFile([self EXCEPT !.cache = EmptyMap])

(***************************************************************************)
(* PackageSizeCache (the shopping calculator service).                     *)
(***************************************************************************)
PackageSizeCache_saveToFile(self) == [self EXCEPT !.file = JsonSnapshot(self.cache)]

\* PackageSizeCache_set with the ttl left out of the expiry
PackageSizeCache_set_NoTtl(self, key, value, t) ==
    LET item == [value |-> value, expiry |-> t]
    IN PackageSizeCache_saveToFile([self EXCEPT !.cache = MapPut(self.cache, key, item)])

PackageSizeCache_set(self, key, value, t) ==
    LET item == [value |-> value, expiry |-> t + PackageTtl]
    IN PackageSizeCache_saveToFile([self EXCEPT !.cache = MapPut(self.cache, key, item)])

\* the value set returns: line 32
PackageSizeCache_setReturn(key, value) == value

\* PackageSizeCache_get with a hit that restarts the ttl of the entry
PackageSizeCache_get_Sliding(self, key, t) ==
    IF key \notin DOMAIN self.cache THEN [self |-> self, ret |-> Null]
    ELSE IF t > self.cache[key].expiry
    THEN [self |-> PackageSizeCache_saveToFile(
                       [self EXCEPT !.cache = MapDelete(self.cache, key)]),
          ret |-> Null]
    ELSE [self |-> PackageSizeCache_saveToFile(
                       [self EXCEPT !.cache[key].expiry = t + PackageTtl]),
          ret |-> self.cache[key].value]

PackageSizeCache_get(self, key, t) ==
    IF key \notin DOMAIN self.cache THEN [self |-> self, ret |-> Null]
    ELSE IF t > self.cache[key].expiry
    THEN [self |-> PackageSizeCache_saveToFile(
                       [self EXCEPT !.cache = MapDelete(self.cache, key)]),
          ret |-> Null]
    ELSE [self |-> self, ret |-> self.cache[key].value]

\* a cache constructed with no snapshot file on disk
NewCache == [cache |-> EmptyMap, file |-> EmptyMap]

(***************************************************************************)
(* The static package table.                                               *)
(***************************************************************************)
PACKAGE_SIZES ==
    <<"c", "h", "i", "c", "k", "e", "n", " ", "b", "r", "e", "a", "s", "t">> :> [size |-> <<"5", "0", "0", "g">>, price |-> Num(599, 100)] @@
    <<"g", "r", "o", "u", "n", "d", " ", "b", "e", "e", "f">> :> [size |-> <<"5", "0", "0", "g">>, price |-> Num(499, 100)] @@
    <<"s", "a", "l", "m", "o", "n", " ", "f", "i", "l", "l", "e", "t">> :> [size |-> <<"2", "5", "0", "g">>, price |-> Num(699, 100)] @@
    <<"t", "o", "f", "u">> :> [size |-> <<"4", "0", "0", "g">>, price |-> Num(249, 100)] @@
    <<"r", "i", "c", "e">> :> [size |-> <<"1", "k", "g">>, price |-> Num(299, 100)] @@
    <<"p", "a", "s", "t", "a">> :> [size |-> <<"5", "0", "0", "g">>, price |-> Num(199, 100)] @@
    <<"q", "u", "i", "n", "o", "a">> :> [size |-> <<"5", "0", "0", "g">>, price |-> Num(499, 100)] @@
    <<"f", "l", "o", "u", "r">> :> [size |-> <<"1", "k", "g">>, price |-> Num(249, 100)] @@
    <<"c", "o", "r", "n", "f", "l", "o", "u", "r">> :> [size |-> <<"5", "0", "0", "g">>, price |-> Num(199, 100)] @@
    <<"o", "l", "i", "v", "e", " ", "o", "i", "l">> :> [size |-> <<"5", "0", "0", "m", "l">>, price |-> Num(699, 100)] @@
    <<"v", "e", "g", "e", "t", "a", "b", "l", "e", " ", "o", "i", "l">> :> [size |-> <<"1", "L">>, price |-> Num(349, 100)] @@
    <<"s", "o", "y", " ", "s", "a", "u", "c", "e">> :> [size |-> <<"1", "5", "0", "m", "l">>, price |-> Num(279, 100)] @@
    <<"h", "o", "n", "e", "y">> :> [size |-> <<"3", "4", "0", "g">>, price |-> Num(499, 100)] @@
    <<"s", "e", "s", "a", "m", "e", " ", "o", "i", "l">> :> [size |-> <<"2", "5", "0", "m", "l">>, price |-> Num(499, 100)] @@
    <<"r", "i", "c", "e", " ", "v", "i", "n", "e", "g", "a", "r">> :> [size |-> <<"1", "5", "0", "m", "l">>, price |-> Num(249, 100)] @@
    <<"s", "a", "l", "t">> :> [size |-> <<"7", "5", "0", "g">>, price |-> Num(129, 100)] @@
    <<"b", "l", "a", "c", "k", " ", "p", "e", "p", "p", "e", "r">> :> [size |-> <<"1", "0", "0", "g">>, price |-> Num(299, 100)] @@
    <<"g", "a", "r", "l", "i", "c", " ", "p", "o", "w", "d", "e", "r">> :> [size |-> <<"5", "0", "g">>, price |-> Num(249, 100)] @@
    <<"g", "i", "n", "g", "e", "r">> :> [size |-> <<"1", "0", "0", "g">>, price |-> Num(199, 100)] @@
    <<"g", "a", "r", "l", "i", "c">> :> [size |-> <<"3", " ", "b", "u", "l", "b", "s">>, price |-> Num(229, 100)] @@
    <<"s", "e", "s", "a", "m", "e", " ", "s", "e", "e", "d", "s">> :> [size |-> <<"1", "0", "0", "g">>, price |-> Num(279, 100)] @@
    <<"b", "e", "l", "l", " ", "p", "e", "p", "p", "e", "r">> :> [size |-> <<"3", " ", "p", "a", "c", "k">>, price |-> Num(299, 100)] @@
    <<"s", "p", "r", "i", "n", "g", " ", "o", "n", "i", "o", "n">> :> [size |-> <<"b", "u", "n", "c", "h">>, price |-> Num(129, 100)] @@
    <<"o", "n", "i", "o", "n">> :> [size |-> <<"3", " ", "p", "a", "c", "k">>, price |-> Num(199, 100)] @@
    <<"t", "o", "m", "a", "t", "o">> :> [size |-> <<"6", " ", "p", "a", "c", "k">>, price |-> Num(249, 100)] @@
    <<"l", "e", "m", "o", "n">> :> [size |-> <<"3", " ", "p", "a", "c", "k">>, price |-> Num(249, 100)]

\* { ...d, source: tag }
WithSource(d, tag) ==
    [f \in DOMAIN d \cup {"source"} |-> IF f = "source" THEN tag ELSE d[f]]

HARDCODED == <<"h", "a", "r", "d", "c", "o", "d", "e", "d", " ", "d", "a", "t", "a", "b", "a", "s", "e">>
PACKAGE_CACHE == <<"p", "a", "c", "k", "a", "g", "e", " ", "c", "a", "c", "h", "e">>
SPOONACULAR_API == <<"s", "p", "o", "o", "n", "a", "c", "u", "l", "a", "r", " ", "A", "P", "I">>
ESTIMATED == <<"e", "s", "t", "i", "m", "a", "t", "e", "d">>
ESTIMATED_AFTER_ERROR == <<"e", "s", "t", "i", "m", "a", "t", "e", "d", " ", "(", "a", "f", "t", "e", "r", " ", "e", "r", "r", "o", "r", ")">>

(***************************************************************************)
(* estimatePackageInfo: the category heuristic over substrings of the name.*)
(***************************************************************************)
IncludesAny(name, words) == \E w \in words : Includes(name, w)

ProteinWords == {<<"c", "h", "i", "c", "k", "e", "n">>, <<"b", "e", "e", "f">>, <<"f", "i", "s", "h">>, <<"p", "o", "r", "k">>, <<"t", "o", "f", "u">>, <<"m", "e", "a", "t">>}
GrainWords == {<<"r", "i", "c", "e">>, <<"p", "a", "s", "t", "a">>, <<"f", "l", "o", "u", "r">>, <<"g", "r", "a", "i", "n">>, <<"q", "u", "i", "n", "o", "a">>, <<"b", "e", "a", "n">>}
LiquidWords == {<<"o", "i", "l">>, <<"s", "a", "u", "c", "e">>, <<"v", "i", "n", "e", "g", "a", "r">>, <<"j", "u", "i", "c", "e">>, <<"m", "i", "l", "k">>, <<"c", "r", "e", "a", "m">>}
SpiceWords == {<<"s", "p", "i", "c", "e">>, <<"h", "e", "r", "b">>, <<"p", "o", "w", "d", "e", "r">>, <<"s", "a", "l", "t">>, <<"p", "e", "p", "p", "e", "r">>, <<"s", "e", "a", "s", "o", "n", "i", "n", "g">>}
ProduceWords == {<<"v", "e", "g", "e", "t", "a", "b", "l", "e">>, <<"f", "r", "u", "i", "t">>, <<"o", "n", "i", "o", "n">>, <<"p", "e", "p", "p", "e", "r">>, <<"c", "a", "r", "r", "o", "t">>,
                 <<"t", "o", "m", "a", "t", "o">>, <<"l", "e", "t", "t", "u", "c", "e">>, <<"p", "o", "t", "a", "t", "o">>}

estimatePackageInfo(ingredientName) ==
    LET name == ToLowerCase(ingredientName)
    IN IF IncludesAny(name, ProteinWords) THEN [size |-> <<"5", "0", "0", "g">>, price |-> Num(599, 100)]
       ELSE IF IncludesAny(name, GrainWords) THEN [size |-> <<"1", "k", "g">>, price |-> Num(299, 100)]
       ELSE IF IncludesAny(name, LiquidWords) THEN [size |-> <<"5", "0", "0", "m", "l">>, price |-> Num(399, 100)]
       ELSE IF IncludesAny(name, SpiceWords) THEN [size |-> <<"5", "0", "g">>, price |-> Num(249, 100)]
       ELSE IF IncludesAny(name, ProduceWords) THEN [size |-> <<"5", "0", "0", "g">>, price |-> Num(249, 100)]
       ELSE [size |-> <<"2", "5", "0", "g">>, price |-> Num(349, 100)]

(***************************************************************************)
(* extractPackageSizeFromProduct.  A product is a record of the fields     *)
(* packageWeight, servings, serving_size and price; a field is Absent, a   *)
(* string [str |-> s] or a number [num |-> x].                             *)
(***************************************************************************)
IsStr(v) == "str" \in DOMAIN v
IsNum(v) == "num" \in DOMAIN v
\* a field value in a boolean context
FieldTruthy(v) ==
    IF IsStr(v) THEN v.str # <<>> ELSE IF IsNum(v) THEN Truthy(v.num) ELSE FALSE

NumericSet == DigitSet \cup {"."}
LetterSet == Range(UpperChars) \cup Range(LowerChars)

\* s.match(/[cs]+/)?.[0]: the first run of characters of cs in s, Absent without one
FirstRun(s, cs) ==
    LET starts == {i \in DOMAIN s : s[i] \in cs}
    IN IF starts = {} THEN Absent
       ELSE LET lo == CHOOSE i \in starts : \A j \in starts : i <= j
                rest == SubSeq(s, lo, Len(s))
            IN [str |-> SubSeq(rest, 1, PrefixLen(rest, cs))]

\* parseFloat(s.match(/[\d.]+/)?.[0] || 0)
LeadingNumber(s) ==
    LET run == FirstRun(s, NumericSet)
    IN IF run = Absent THEN Zero ELSE ParseFloat(run.str)

\* s.match(/[a-zA-Z]+/)?.[0] || "g"
LeadingUnit(s) ==
    LET run == FirstRun(s, LetterSet)
    IN IF run = Absent THEN <<"g">> ELSE run.str

\* parseFloat(v) of a field: a number is itself, a string is parsed up to
\* the end of its leading decimal literal
ParseFloatField(v) ==
    IF IsNum(v) THEN v.num
    ELSE IF IsStr(v) THEN ParseFloat(v.str)
    ELSE NaN

\* product.price || null (the price, when present, is a number)
PriceOrNull(product) == IF FieldTruthy(product.price) THEN product.price.num ELSE Null

Threw == [threw |-> TRUE]
Returned(v) == [threw |-> FALSE, value |-> v]

\* the serving-size branch of extractPackageSizeFromProduct
ExtractFromServings(product) ==
    IF FieldTruthy(product.servings) /\ FieldTruthy(product.serving_size)
    THEN IF ~IsStr(product.serving_size) THEN Threw  \* .match is not a function
         ELSE LET servings == ParseFloatField(product.servings)
                  servingSize == LeadingNumber(product.serving_size.str)
                  unit == LeadingUnit(product.serving_size.str)
              IN IF Gt(servings, Zero) /\ Gt(servingSize, Zero)
                 THEN Returned([size |-> NumToStr(Mul(servings, servingSize)) \o unit,
                                price |-> PriceOrNull(product)])
                 ELSE Returned(Null)
    ELSE Returned(Null)

extractPackageSizeFromProduct(product) ==
    IF product = Null THEN Returned(Null)
    ELSE IF FieldTruthy(product.packageWeight)
    THEN IF ~IsStr(product.packageWeight) THEN Threw  \* .match is not a function
         ELSE LET weight == LeadingNumber(product.packageWeight.str)
                  unit == LeadingUnit(product.packageWeight.str)
              IN IF Gt(weight, Zero)
                 THEN Returned([size |-> NumToStr(weight) \o unit,
                                price |-> PriceOrNull(product)])
                 ELSE ExtractFromServings(product)
    ELSE ExtractFromServings(product)

(***************************************************************************)
(* Sample strings.                                                         *)
(***************************************************************************)
S_kale == <<"k", "a", "l", "e">>
S_tofu == <<"t", "o", "f", "u">>
S_oat_milk == <<"o", "a", "t", " ", "m", "i", "l", "k">>
S_piece == <<"p", "i", "e", "c", "e">>
S_spoonacular == <<"s", "p", "o", "o", "n", "a", "c", "u", "l", "a", "r">>
S_250g == <<"2", "5", "0", "g">>
S_500ml == <<"5", "0", "0", "m", "l">>

(***************************************************************************)
(* The idle values of the parts of the state a specification leaves alone. *)
(***************************************************************************)
Slots == 1..MaxIngredients
IdleCall == [pc |-> "idle"]
IdleCalls == [c \in Slots |-> IdleCall]
IdleLog == [target |-> "none", last |-> Null, sets |-> EmptyMap]
IdleShopping == [pc |-> "idle"]

(***************************************************************************)
(* SpecCache: the two cache classes driven directly through their methods. *)
(* cacheLog.target names the instance under study; cacheLog.sets records,  *)
(* per key, the time and value of the last set not followed by a clear.    *)
(***************************************************************************)
CacheKeys == {S_kale, S_oat_milk}
PriceValues ==
    {[price |-> Num(35, 100), unit |-> S_piece, source |-> S_spoonacular],
     [price |-> Zero, unit |-> S_piece, source |-> S_spoonacular]}
\* the results getIngredientPrice caches: estimatedCost.value / 100, which is
\* NaN when the response's estimatedCost has no numeric value
ComputedPriceValues ==
    {[price |-> Num(35, 100), unit |-> S_piece, source |-> S_spoonacular],
     [price |-> NaN, unit |-> S_piece, source |-> S_spoonacular]}
PackageValues ==
    {[size |-> S_250g, price |-> Num(349, 100)],
     [size |-> S_500ml, price |-> Num(399, 100)]}

InitCache ==
    /\ now = 0
    /\ SPOONACULAR_API_KEY = FALSE
    /\ packageSizeCache = NewCache
    /\ ingredientPriceCache = NewCache
    /\ calls = IdleCalls
    /\ prev = EmptyMap
    /\ cacheLog \in {[target |-> t, last |-> Null, sets |-> EmptyMap] : t \in {"price", "package"}}
    /\ usage = Null
    /\ shopping = IdleShopping

\* the record of an operation: what it returned, the entry the key had
\* before, whether it changed the map and whether its write succeeded
Logged(op, key, ret, before, after, ok) ==
    [op |-> op, key |-> key, ret |-> ret, at |-> now,
     replaced |-> IF key \in DOMAIN before.cache THEN before.cache[key] ELSE Null,
     mutated |-> op # "get" \/ after.cache # before.cache,
     written |-> ok]

PriceCacheSet(k, v, ok) ==
    /\ cacheLog.target = "price"
    /\ LET after == SimpleCache_set(ingredientPriceCache, k, v, now)
       IN /\ ingredientPriceCache' =
                 IF ok THEN after ELSE WriteFailed(ingredientPriceCache, after)
          /\ cacheLog' = [cacheLog EXCEPT
                             !.last = Logged("set", k, SimpleCache_setReturn(k, v),
                                             ingredientPriceCache, after, ok),
                             !.sets = MapPut(@, k, [at |-> now, value |-> v])]
    /\ UNCHANGED <<now, SPOONACULAR_API_KEY, packageSizeCache, calls, prev, usage, shopping>>

PriceCacheGet(k, ok) ==
    /\ cacheLog.target = "price"
    /\ LET r == SimpleCache_get(ingredientPriceCache, k, now)
       IN /\ ingredientPriceCache' =
                 IF ok THEN r.self ELSE WriteFailed(ingredientPriceCache, r.self)
          /\ cacheLog' = [cacheLog EXCEPT
                             !.last = Logged("get", k, r.ret, ingredientPriceCache, r.self, ok)]
    /\ UNCHANGED <<now, SPOONACULAR_API_KEY, packageSizeCache, calls, prev, usage, shopping>>

PriceCacheClear(ok) ==
    /\ cacheLog.target = "price"
    /\ LET after == SimpleCache_clear(ingredientPriceCache)
       IN /\ ingredientPriceCache' =
                 IF ok THEN after ELSE WriteFailed(ingredientPriceCache, after)
          /\ cacheLog' = [cacheLog EXCEPT
                             !.last = Logged("clear", <<>>, Null, ingredientPriceCache, after, ok),
                             !.sets = EmptyMap]
    /\ UNCHANGED <<now, SPOONACULAR_API_KEY, packageSizeCache, calls, prev, usage, shopping>>

PackageCacheSet(k, v, ok) ==
    /\ cacheLog.target = "package"
    /\ LET after == PackageSizeCache_set(packageSizeCache, k, v, now)
       IN /\ packageSizeCache' = IF ok THEN after ELSE WriteFailed(packageSizeCache, after)
          /\ cacheLog' = [cacheLog EXCEPT
                             !.last = Logged("set", k, PackageSizeCache_setReturn(k, v),
                                             packageSizeCache, after, ok),
                             !.sets = MapPut(@, k, [at |-> now, value |-> v])]
    /\ UNCHANGED <<now, SPOONACULAR_API_KEY, ingredientPriceCache, calls, prev, usage, shopping>>

PackageCacheGet(k, ok) ==
    /\ cacheLog.target = "package"
    /\ LET r == PackageSizeCache_get(packageSizeCache, k, now)
       IN /\ packageSizeCache' = IF ok THEN r.self ELSE WriteFailed(packageSizeCache, r.self)
          /\ cacheLog' = [cacheLog EXCEPT
                             !.last = Logged("get", k, r.ret, packageSizeCache, r.self, ok)]
    /\ UNCHANGED <<now, SPOONACULAR_API_KEY, ingredientPriceCache, calls, prev, usage, shopping>>

\* time passes
Tick ==
    /\ now < MaxTime
    /\ now' = now + 1
    /\ UNCHANGED <<SPOONACULAR_API_KEY, packageSizeCache, ingredientPriceCache, calls,
                   prev, cacheLog, usage, shopping>>

NextCache ==
    \/ \E k \in CacheKeys, v \in ComputedPriceValues, ok \in BOOLEAN : PriceCacheSet(k, v, ok)
    \/ \E k \in CacheKeys, ok \in BOOLEAN : PriceCacheGet(k, ok)
    \/ \E ok \in BOOLEAN : PriceCacheClear(ok)
    \/ \E k \in CacheKeys, v \in PackageValues, ok \in BOOLEAN : PackageCacheSet(k, v, ok)
    \/ \E k \in CacheKeys, ok \in BOOLEAN : PackageCacheGet(k, ok)
    \/ Tick

SpecCache == InitCache /\ [][NextCache]_vars

\* the instance under study and its ttl
TargetCache == IF cacheLog.target = "price" THEN ingredientPriceCache ELSE packageSizeCache
TargetTtl == IF cacheLog.target = "price" THEN PriceTtl ELSE PackageTtl
\* the last operation was a get of a key that was set at t0 and neither set
\* again nor cleared since
GetAfterSet ==
    /\ cacheLog.last # Null
    /\ cacheLog.last.op = "get"
    /\ cacheLog.last.key \in DOMAIN cacheLog.sets

\* C1 as stated: a get at t < t0 + T returns the value set, a get at
\* t >= t0 + T (the instant t0 + T included) returns null and evicts the entry.
C1_ExpiryAtBoundary ==
    GetAfterSet =>
        LET g == cacheLog.last
            s == cacheLog.sets[g.key]
        IN /\ g.at < s.at + TargetTtl => g.ret = s.value
           /\ g.at >= s.at + TargetTtl =>
                  g.ret = Null /\ g.key \notin DOMAIN TargetCache.cache

\* C1, amended: a get at t <= t0 + T returns the value set and keeps the
\* entry; a get at t > t0 + T returns null and leaves no entry for the key.
C1_TtlExpiry ==
    GetAfterSet =>
        LET g == cacheLog.last
            s == cacheLog.sets[g.key]
        IN /\ g.at <= s.at + TargetTtl =>
                  g.ret = s.value /\ g.key \in DOMAIN TargetCache.cache
           /\ g.at > s.at + TargetTtl =>
                  g.ret = Null /\ g.key \notin DOMAIN TargetCache.cache

\* a get after the ttl has elapsed returned null
C1_Witness ==
    /\ GetAfterSet
    /\ cacheLog.last.at > cacheLog.sets[cacheLog.last.key].at + TargetTtl
    /\ cacheLog.last.ret = Null

(***************************************************************************)
(* getPackageInfo.  An invocation runs in up to four steps, cut at its     *)
(* awaits: the synchronous head (static table, package cache, price cache),*)
(* the resumption after the price-cache await, the arrival of the product  *)
(* search response and the arrival of the product detail response.         *)
(* Besides pc, ingredientName, normalizedName and priceInfo, an invocation *)
(* carries history fields used to state properties: when it started, the   *)
(* package cache it found, what prev held for its key, whether it issued   *)
(* the remote search, the last remote response it received, whether it     *)
(* wrote the package cache, and its result.                                *)
(***************************************************************************)
NoResult == Null

NewCall(raw, n) ==
    [pc |-> "start", ingredientName |-> raw, normalizedName |-> n, priceInfo |-> Null,
     result |-> NoResult, startedAt |-> now, cacheBefore |-> packageSizeCache,
     prior |-> IF n \in DOMAIN prev THEN prev[n] ELSE Null,
     searched |-> FALSE, response |-> Null, wrote |-> FALSE]

\* the invocation returns descriptor d
Return(call, d) == [call EXCEPT !.pc = "done", !.result = d]

\* prev after an invocation for key n computed d (rather than finding it in
\* the static table or the package cache)
Computed(c, n, d) ==
    MapPut(prev, n, [descriptor |-> d, at |-> now, ingredientName |-> calls[c].ingredientName])

\* ReturnEstimate without the write to the package cache
ReturnEstimate_NoWrite(c, response) ==
    LET n == calls[c].normalizedName
        d == WithSource(estimatePackageInfo(n), ESTIMATED)
    IN /\ calls' = [calls EXCEPT ![c] = Return([@ EXCEPT !.response = response], d)]
       /\ prev' = Computed(c, n, d)
       /\ UNCHANGED packageSizeCache

\* lines 287-293: estimate, write the estimate to the package cache, return it
ReturnEstimate(c, response) ==
    LET n == calls[c].normalizedName
        estimatedPackageInfo == estimatePackageInfo(n)
        d == WithSource(estimatedPackageInfo, ESTIMATED)
    IN /\ packageSizeCache' =
              PackageSizeCache_set(packageSizeCache, n, estimatedPackageInfo, now)
       /\ calls' = [calls EXCEPT ![c] =
                      Return([@ EXCEPT !.wrote = TRUE, !.response = response], d)]
       /\ prev' = Computed(c, n, d)

\* ReturnAfterError with the tag of an ordinary estimate
ReturnAfterError_SameTag(c, response) ==
    LET n == calls[c].normalizedName
        d == WithSource(estimatePackageInfo(n), ESTIMATED)
    IN /\ calls' = [calls EXCEPT ![c] = Return([@ EXCEPT !.response = response], d)]
       /\ prev' = Computed(c, n, d)
       /\ UNCHANGED packageSizeCache

\* ReturnAfterError with the estimate written to the package cache
ReturnAfterError_Cached(c, response) ==
    LET n == calls[c].normalizedName
        estimatedPackageInfo == estimatePackageInfo(n)
        d == WithSource(estimatedPackageInfo, ESTIMATED_AFTER_ERROR)
    IN /\ packageSizeCache' =
              PackageSizeCache_set(packageSizeCache, n, estimatedPackageInfo, now)
       /\ calls' = [calls EXCEPT ![c] =
                      Return([@ EXCEPT !.wrote = TRUE, !.response = response], d)]
       /\ prev' = Computed(c, n, d)

\* lines 294-306: the catch block
ReturnAfterError(c, response) ==
    LET n == calls[c].normalizedName
        d == WithSource(estimatePackageInfo(n), ESTIMATED_AFTER_ERROR)
    IN /\ calls' = [calls EXCEPT ![c] = Return([@ EXCEPT !.response = response], d)]
       /\ prev' = Computed(c, n, d)
       /\ UNCHANGED packageSizeCache

S_constructor == <<"c", "o", "n", "s", "t", "r", "u", "c", "t", "o", "r">>
\* the property names every object literal inherits from Object.prototype
ObjectPrototypeKeys ==
    {S_constructor, <<"t", "o", "S", "t", "r", "i", "n", "g">>, <<"v", "a", "l", "u", "e", "O", "f">>, <<"h", "a", "s", "O", "w", "n", "P", "r", "o", "p", "e", "r", "t", "y">>,
     <<"i", "s", "P", "r", "o", "t", "o", "t", "y", "p", "e", "O", "f">>, <<"t", "o", "L", "o", "c", "a", "l", "e", "S", "t", "r", "i", "n", "g">>, <<"_", "_", "p", "r", "o", "t", "o", "_", "_">>}
\* the value of an inherited property: a function or an object, truthy and
\* NaN in arithmetic
Inherited == [inherited |-> TRUE]

\* object[key] of an object literal
PropertyLookup(object, key) ==
    IF key \in DOMAIN object THEN object[key]
    ELSE IF key \in ObjectPrototypeKeys THEN Inherited
    ELSE Absent

\* PACKAGE_SIZES[normalizedName] of line 223, Null when it reads as undefined
StaticLookup(normalizedName) ==
    IF PropertyLookup(PACKAGE_SIZES, normalizedName) = Absent THEN Null
    ELSE PropertyLookup(PACKAGE_SIZES, normalizedName)

\* { ...PACKAGE_SIZES[normalizedName], source: "hardcoded database" }: an
\* inherited function or object has no own enumerable property to spread
StaticDescriptor(found) ==
    IF found = Inherited THEN [source |-> HARDCODED] ELSE WithSource(found, HARDCODED)

\* NormalizeName without the trim
NormalizeName_NoTrim(ingredientName) == ToLowerCase(ingredientName)

\* String.prototype.toLowerCase().trim() of line 220
NormalizeName(ingredientName) == Trim(ToLowerCase(ingredientName))

\* lines 219-243: the synchronous head of getPackageInfo(raw) in slot c
GetPackageInfo(c, raw) ==
    /\ calls[c].pc \in {"idle", "done"}
    /\ LET normalizedName == NormalizeName(raw)
           call == NewCall(raw, normalizedName)
           cached == PackageSizeCache_get(packageSizeCache, normalizedName, now)
           priced == SimpleCache_get(ingredientPriceCache, normalizedName, now)
       IN IF StaticLookup(normalizedName) # Null
          THEN /\ calls' = [calls EXCEPT ![c] =
                              Return(call, StaticDescriptor(StaticLookup(normalizedName)))]
               /\ UNCHANGED <<packageSizeCache, ingredientPriceCache, prev>>
          ELSE IF cached.ret # Null
          THEN /\ calls' = [calls EXCEPT ![c] =
                              Return(call, WithSource(cached.ret, PACKAGE_CACHE))]
               /\ packageSizeCache' = cached.self
               /\ UNCHANGED <<ingredientPriceCache, prev>>
          ELSE IF ~SPOONACULAR_API_KEY
          THEN LET estimatedPackageInfo == estimatePackageInfo(normalizedName)
                   d == WithSource(estimatedPackageInfo, ESTIMATED)
               IN /\ packageSizeCache' = PackageSizeCache_set(cached.self, normalizedName,
                                                              estimatedPackageInfo, now)
                  /\ calls' = [calls EXCEPT ![c] = Return([call EXCEPT !.wrote = TRUE], d)]
                  /\ prev' = MapPut(prev, normalizedName,
                                    [descriptor |-> d, at |-> now, ingredientName |-> raw])
                  /\ UNCHANGED ingredientPriceCache
          ELSE /\ calls' = [calls EXCEPT ![c] =
                              [call EXCEPT !.pc = "awaitPrice", !.priceInfo = priced.ret]]
               /\ packageSizeCache' = cached.self
               /\ ingredientPriceCache' = priced.self
               /\ UNCHANGED prev
    /\ UNCHANGED <<now, SPOONACULAR_API_KEY, cacheLog, usage, shopping>>

\* !priceInfo || !priceInfo.price
NoPrice(priceInfo) == priceInfo = Null \/ ~Truthy(priceInfo.price)

\* lines 245-250 and 287-293: after the await of line 243, either the
\* product search is issued or the estimate is returned
AfterPriceInfo(c) ==
    /\ calls[c].pc = "awaitPrice"
    /\ IF NoPrice(calls[c].priceInfo)
       THEN /\ calls' = [calls EXCEPT ![c] = [@ EXCEPT !.pc = "awaitSearch", !.searched = TRUE]]
            /\ UNCHANGED <<packageSizeCache, prev>>
       ELSE ReturnEstimate(c, Null)
    /\ UNCHANGED <<now, SPOONACULAR_API_KEY, ingredientPriceCache, cacheLog, usage, shopping>>

\* what the product search can answer: the request fails, the response has
\* no data object, no product matches, a product matches
SearchResponses == {"rejected", "malformed", "none", "product"}

\* lines 250-257: the search response arrives
SearchResponse(c, response) ==
    /\ calls[c].pc = "awaitSearch"
    /\ CASE response \in {"rejected", "malformed"} -> ReturnAfterError(c, [search |-> response])
         [] response = "none" -> ReturnEstimate(c, [search |-> response])
         [] response = "product" ->
               /\ calls' = [calls EXCEPT ![c] =
                              [@ EXCEPT !.pc = "awaitDetail", !.response = [search |-> response]]]
               /\ UNCHANGED <<packageSizeCache, prev>>
    /\ UNCHANGED <<now, SPOONACULAR_API_KEY, ingredientPriceCache, cacheLog, usage, shopping>>

Product(pw, sv, ss, pr) ==
    [packageWeight |-> pw, servings |-> sv, serving_size |-> ss, price |-> pr]

\* the product data the detail request can answer with
Products ==
    {Product([str |-> <<"2", "0", "0", " ", "g">>], Absent, Absent, [num |-> Num(250, 100)]),
     Product([str |-> <<"0", "g">>], [num |-> Num(4, 1)], [str |-> <<"1", ".", "5", "0", " ", "k", "g">>], Absent),
     Product([num |-> Num(500, 1)], Absent, Absent, Absent),
     Product(Absent, Absent, Absent, [num |-> Num(250, 100)])}

\* what the detail request can answer: the request fails, the response has
\* no data, the response carries product data
DetailResponses == {[rejected |-> TRUE], [data |-> Null]} \cup {[data |-> p] : p \in Products}

\* packageSize.price || (priceInfo ? priceInfo.price * 10 : 3.99); priceInfo
\* has no truthy price where this is evaluated
PackagePrice(packageSize, priceInfo) ==
    IF packageSize.price # Null THEN packageSize.price
    ELSE IF priceInfo # Null THEN Mul(priceInfo.price, Num(10, 1))
    ELSE Num(399, 100)

\* ReturnRemote without the write to the package cache
ReturnRemote_NoWrite(c, packageSize, response) ==
    LET n == calls[c].normalizedName
        packageInfo == [size |-> packageSize.size,
                        price |-> PackagePrice(packageSize, calls[c].priceInfo)]
        d == WithSource(packageInfo, SPOONACULAR_API)
    IN /\ calls' = [calls EXCEPT ![c] = Return([@ EXCEPT !.response = response], d)]
       /\ prev' = Computed(c, n, d)
       /\ UNCHANGED packageSizeCache

\* lines 266-279: build the package info from the extracted size, write it
\* to the package cache, return it
ReturnRemote(c, packageSize, response) ==
    LET n == calls[c].normalizedName
        packageInfo == [size |-> packageSize.size,
                        price |-> PackagePrice(packageSize, calls[c].priceInfo)]
        d == WithSource(packageInfo, SPOONACULAR_API)
    IN /\ packageSizeCache' = PackageSizeCache_set(packageSizeCache, n, packageInfo, now)
       /\ calls' = [calls EXCEPT ![c] =
                      Return([@ EXCEPT !.wrote = TRUE, !.response = response], d)]
       /\ prev' = Computed(c, n, d)

\* lines 257-293: the detail response arrives
DetailResponse(c, response) ==
    /\ calls[c].pc = "awaitDetail"
    /\ IF "rejected" \in DOMAIN response THEN ReturnAfterError(c, response)
       ELSE IF response.data = Null THEN ReturnEstimate(c, response)
       ELSE LET extracted == extractPackageSizeFromProduct(response.data)
            IN IF extracted.threw THEN ReturnAfterError(c, response)
               ELSE IF extracted.value = Null THEN ReturnEstimate(c, response)
               ELSE ReturnRemote(c, extracted.value, response)
    /\ UNCHANGED <<now, SPOONACULAR_API_KEY, ingredientPriceCache, cacheLog, usage, shopping>>

\* the cache entries the forEach of lines 596-603 adds: those whose key
\* reads as falsy from the copy of the static table
AddedKeys ==
    {key \in DOMAIN packageSizeCache.cache : PropertyLookup(PACKAGE_SIZES, key) = Absent}

\* getAllPackageSizes with the static entries tagged as well
getAllPackageSizes_AllTagged ==
    [key \in DOMAIN PACKAGE_SIZES \cup AddedKeys |->
        IF key \in DOMAIN PACKAGE_SIZES THEN WithSource(PACKAGE_SIZES[key], HARDCODED)
        ELSE WithSource(packageSizeCache.cache[key].value, PACKAGE_CACHE)]

\* getAllPackageSizes with the cache's entry replacing the static one
getAllPackageSizes_CacheWins ==
    [key \in DOMAIN PACKAGE_SIZES \cup AddedKeys |->
        IF key \in DOMAIN packageSizeCache.cache
        THEN WithSource(packageSizeCache.cache[key].value, PACKAGE_CACHE)
        ELSE PACKAGE_SIZES[key]]

\* getAllPackageSizes: the static table, and the entries resident in the
\* package cache under other names, tagged
getAllPackageSizes ==
    [key \in DOMAIN PACKAGE_SIZES \cup AddedKeys |->
        IF key \in DOMAIN PACKAGE_SIZES THEN PACKAGE_SIZES[key]
        ELSE WithSource(packageSizeCache.cache[key].value, PACKAGE_CACHE)]

(***************************************************************************)
(* Spec: resolve called by one caller that awaits each result, while time  *)
(* passes.  The price cache starts from what its snapshot file held.       *)
(***************************************************************************)
RawNames == {<<"t", "o", "f", "u">>, <<" ", "T", "o", "f", "u", "\t">>, <<"o", "a", "t", " ", "m", "i", "l", "k">>, <<" ", "O", "a", "t", " ", "M", "I", "L", "K", " ">>}

\* price-cache entries written one tick before the process started
LoadedPriceCaches ==
    {EmptyMap} \cup
    {S_oat_milk :> [value |-> v, expiry |-> PriceTtl - 1] : v \in PriceValues}

\* a package-cache snapshot that holds an entry under a name of the static table
LoadedPackageCaches ==
    {EmptyMap,
     S_tofu :> [value |-> [size |-> S_250g, price |-> Num(349, 100)], expiry |-> PackageTtl]}

Init ==
    /\ now = 0
    /\ SPOONACULAR_API_KEY \in BOOLEAN
    /\ packageSizeCache \in {[cache |-> m, file |-> m] : m \in LoadedPackageCaches}
    /\ ingredientPriceCache \in {[cache |-> m, file |-> m] : m \in LoadedPriceCaches}
    /\ calls = IdleCalls
    /\ prev = EmptyMap
    /\ cacheLog = IdleLog
    /\ usage = Null
    /\ shopping = IdleShopping

Next ==
    \/ \E raw \in RawNames : GetPackageInfo(1, raw)
    \/ AfterPriceInfo(1)
    \/ \E r \in SearchResponses : SearchResponse(1, r)
    \/ \E r \in DetailResponses : DetailResponse(1, r)
    \/ Tick

Spec == Init /\ [][Next]_vars

(***************************************************************************)
(* Properties of resolve (getPackageInfo), stated on the invocation of     *)
(* slot 1 under Spec.                                                      *)
(***************************************************************************)
Call == calls[1]
Done == Call.pc = "done"
Active == Call.pc # "idle"
NotStatic(n) == n \notin DOMAIN PACKAGE_SIZES
SizePrice(d) == [size |-> d.size, price |-> d.price]
Tags == {HARDCODED, PACKAGE_CACHE, SPOONACULAR_API, ESTIMATED, ESTIMATED_AFTER_ERROR}

\* the package cache held an unexpired entry for the key when the call started
HadFresh ==
    /\ Call.normalizedName \in DOMAIN Call.cacheBefore.cache
    /\ Call.startedAt <= Call.cacheBefore.cache[Call.normalizedName].expiry

\* the package cache holds, for the call's key, the size and price returned
CachedAsReturned ==
    /\ Call.normalizedName \in DOMAIN packageSizeCache.cache
    /\ packageSizeCache.cache[Call.normalizedName].value = SizePrice(Call.result)

\* an earlier call computed a descriptor for the same key, and this call
\* started before the entry written then could expire
SecondCall ==
    /\ Done
    /\ NotStatic(Call.normalizedName)
    /\ Call.prior # Null
    /\ Call.startedAt <= Call.prior.at + PackageTtl

SameAsPrior ==
    /\ Call.result.source = PACKAGE_CACHE
    /\ SizePrice(Call.result) = SizePrice(Call.prior.descriptor)

C3_FirstHitWins ==
    Active =>
        /\ ~NotStatic(Call.normalizedName) =>
              /\ Done
              /\ Call.result = WithSource(PACKAGE_SIZES[Call.normalizedName], HARDCODED)
              /\ ~Call.searched
              /\ packageSizeCache = Call.cacheBefore
        /\ NotStatic(Call.normalizedName) /\ HadFresh =>
              /\ Done
              /\ Call.result =
                    WithSource(Call.cacheBefore.cache[Call.normalizedName].value, PACKAGE_CACHE)
              /\ ~Call.searched
              /\ packageSizeCache = Call.cacheBefore

\* a static name was resolved while the cache held an entry under that name
C3_Witness ==
    /\ Done
    /\ ~NotStatic(Call.normalizedName)
    /\ Call.normalizedName \in DOMAIN packageSizeCache.cache
    /\ Call.result.source = HARDCODED

\* the remote lookup answered with product data that has an extractable size
RemoteSucceeded ==
    /\ Active
    /\ Call.response # Null
    /\ "data" \in DOMAIN Call.response
    /\ Call.response.data # Null
    /\ ~extractPackageSizeFromProduct(Call.response.data).threw
    /\ extractPackageSizeFromProduct(Call.response.data).value # Null

\* on remote success the extracted size is cached under the normalized name
\* and returned with the remote tag
RemoteSuccessCached ==
    RemoteSucceeded =>
        /\ Done
        /\ Call.result.source = SPOONACULAR_API
        /\ Call.result.size = extractPackageSizeFromProduct(Call.response.data).value.size
        /\ Call.wrote
        /\ CachedAsReturned

MissedBothTiers == Done /\ NotStatic(Call.normalizedName) /\ ~HadFresh

ErrorResponse(r) ==
    /\ r # Null
    /\ \/ "search" \in DOMAIN r /\ r.search \in {"rejected", "malformed"}
       \/ "rejected" \in DOMAIN r
       \/ "data" \in DOMAIN r /\ r.data # Null /\ extractPackageSizeFromProduct(r.data).threw

\* the remote tier found nothing usable, without throwing
MissResponse(r) ==
    /\ r # Null
    /\ \/ "search" \in DOMAIN r /\ r.search = "none"
       \/ "data" \in DOMAIN r /\ r.data = Null
       \/ /\ "data" \in DOMAIN r /\ r.data # Null
          /\ ~extractPackageSizeFromProduct(r.data).threw
          /\ extractPackageSizeFromProduct(r.data).value = Null

\* C5: when the remote tier throws, resolve still returns: the estimate for
\* the normalized name, under a tag other than that of the estimate returned
\* after an ordinary remote miss.
C5_ErrorsDegradeToEstimate ==
    /\ Active /\ ErrorResponse(Call.response) =>
          /\ Done
          /\ SizePrice(Call.result) = estimatePackageInfo(Call.normalizedName)
          /\ Call.result.source = ESTIMATED_AFTER_ERROR
          /\ Call.result.source # ESTIMATED
    /\ Active /\ MissResponse(Call.response) =>
          /\ Done
          /\ Call.result.source = ESTIMATED

\* the extraction threw on malformed product data and an estimate came back
C5_Witness ==
    /\ Done
    /\ Call.response # Null
    /\ "data" \in DOMAIN Call.response
    /\ Call.response.data # Null
    /\ extractPackageSizeFromProduct(Call.response.data).threw
    /\ Call.result.source = ESTIMATED_AFTER_ERROR

HasOneTag(d) == "source" \in DOMAIN d /\ d.source \in Tags

\* C7 as stated: every descriptor returned by resolve and every descriptor
\* of the listing, static entries included, carries a tag.
C7_EveryDescriptorTagged ==
    /\ Done => HasOneTag(Call.result)
    /\ \A k \in DOMAIN getAllPackageSizes : HasOneTag(getAllPackageSizes[k])

\* C7, amended: every descriptor returned by resolve carries one tag, and so
\* does every cache-only entry of the listing (the cache tag); the listing's
\* static-table entries carry no tag.
C7_TaggedExceptStaticListing ==
    /\ Done => HasOneTag(Call.result)
    /\ \A k \in DOMAIN getAllPackageSizes :
          IF NotStatic(k)
          THEN HasOneTag(getAllPackageSizes[k]) /\ getAllPackageSizes[k].source = PACKAGE_CACHE
          ELSE "source" \notin DOMAIN getAllPackageSizes[k]

\* a listing that holds a cached entry beside the static ones, after a call
C7_Witness ==
    /\ Done
    /\ Call.result.source = SPOONACULAR_API
    /\ \E k \in DOMAIN getAllPackageSizes : NotStatic(k)

\* two characters equal up to letter case
CaseEq(a, b) ==
    a = b \/ \E i \in DOMAIN UpperChars : {a, b} = {UpperChars[i], LowerChars[i]}

\* n is raw without its surrounding whitespace, in lower case
Canonical(raw, n) ==
    /\ \A i \in DOMAIN n : ~IsUpper(n[i])
    /\ n # <<>> => ~IsSpace(n[1]) /\ ~IsSpace(n[Len(n)])
    /\ \E lo \in 0..Len(raw) :
          /\ lo + Len(n) <= Len(raw)
          /\ \A i \in 1..lo : IsSpace(raw[i])
          /\ \A i \in (lo + Len(n) + 1)..Len(raw) : IsSpace(raw[i])
          /\ \A i \in 1..Len(n) : CaseEq(n[i], raw[lo + i])

\* two names that differ only in letter case or surrounding whitespace
SameUpToCaseAndSpace(r1, r2) ==
    \E lo1 \in 0..Len(r1), lo2 \in 0..Len(r2), len \in 0..Len(r1) :
        /\ lo1 + len <= Len(r1) /\ lo2 + len <= Len(r2)
        /\ \A i \in (1..lo1) \cup ((lo1 + len + 1)..Len(r1)) : IsSpace(r1[i])
        /\ \A i \in (1..lo2) \cup ((lo2 + len + 1)..Len(r2)) : IsSpace(r2[i])
        /\ len > 0 => ~IsSpace(r1[lo1 + 1]) /\ ~IsSpace(r1[lo1 + len])
        /\ \A i \in 1..len : CaseEq(r1[lo1 + i], r2[lo2 + i])

\* C8: the key of every tier is the name lower-cased and trimmed, so names
\* that differ only in case or surrounding whitespace share it: they hit
\* the same static entry, read and write the same cache key, and a call
\* within the ttl gets the size and price computed for the other spelling.
C8_NormalizedKey ==
    Active =>
        /\ Canonical(Call.ingredientName, Call.normalizedName)
        /\ \A r \in RawNames :
              SameUpToCaseAndSpace(Call.ingredientName, r)
                  => NormalizeName(r) = Call.normalizedName
        /\ Done => (Call.result.source = HARDCODED <=> ~NotStatic(Call.normalizedName))
        /\ Done /\ ~NotStatic(Call.normalizedName)
              => SizePrice(Call.result) = PACKAGE_SIZES[Call.normalizedName]
        /\ Done /\ Call.wrote => CachedAsReturned
        /\ SecondCall /\ Call.prior.descriptor.source # ESTIMATED_AFTER_ERROR
              => /\ SameUpToCaseAndSpace(Call.prior.ingredientName, Call.ingredientName)
                 /\ SizePrice(Call.result) = SizePrice(Call.prior.descriptor)

\* a call found in the cache what a call under another spelling had computed
C8_Witness ==
    /\ SecondCall
    /\ Call.prior.ingredientName # Call.ingredientName
    /\ Call.result.source = PACKAGE_CACHE
    /\ SizePrice(Call.result) = SizePrice(Call.prior.descriptor)

(***************************************************************************)
(* parseQuantity.                                                          *)
(***************************************************************************)
\* quantity.match(/^([\d.]+)\s*(.+)$/): the first split the backtracking
\* matcher finds, trying the longest first group first and, for each, the
\* longest run of white space first; the rest must be non-empty and free of
\* line terminators.  Null when there is none.
QuantityMatch(s) ==
    LET n == PrefixLen(s, NumericSet)
        Fits(k, w) == /\ k + w < Len(s)
                      /\ \A i \in (k + 1)..(k + w) : IsSpace(s[i])
                      /\ \A i \in (k + w + 1)..Len(s) : ~IsLineTerminator(s[i])
        ks == {k \in 1..n : \E w \in 0..Len(s) : Fits(k, w)}
    IN IF ks = {} THEN Null
       ELSE LET k == CHOOSE x \in ks : \A y \in ks : y <= x
                ws == {w \in 0..Len(s) : Fits(k, w)}
                w == CHOOSE x \in ws : \A y \in ws : y <= x
            IN [number |-> SubSeq(s, 1, k), rest |-> SubSeq(s, k + w + 1, Len(s))]

parseQuantity(quantity) ==
    LET match == QuantityMatch(quantity)
    IN IF match = Null THEN [value |-> One, unit |-> quantity]
       ELSE [value |-> ParseFloat(match.number), unit |-> Trim(match.rest)]

(***************************************************************************)
(* convertUnit.                                                            *)
(***************************************************************************)
S_g == <<"g">>
S_kg == <<"k", "g">>
S_ml == <<"m", "l">>
S_l == <<"l">>
S_tbsp == <<"t", "b", "s", "p">>
S_tsp == <<"t", "s", "p">>
S_cup == <<"c", "u", "p">>
S_bulb == <<"b", "u", "l", "b">>
S_chicken_breast == <<"c", "h", "i", "c", "k", "e", "n", " ", "b", "r", "e", "a", "s", "t">>
S_garlic == <<"g", "a", "r", "l", "i", "c">>
S_salt == <<"s", "a", "l", "t">>

\* conversionMap["piece to g"] and conversionMap["bulb to g"]
PieceToG ==
    S_chicken_breast :> Num(200, 1) @@ <<"b", "e", "l", "l", " ", "p", "e", "p", "p", "e", "r">> :> Num(150, 1) @@
    S_garlic :> Num(5, 1) @@ <<"l", "e", "m", "o", "n">> :> Num(100, 1) @@
    <<"s", "p", "r", "i", "n", "g", " ", "o", "n", "i", "o", "n">> :> Num(30, 1)
BulbToG == S_garlic :> Num(45, 1)

\* value * factor, where factor is the result of table[ingredient] || fallback
TimesFactor(value, factor) == IF factor = Inherited THEN NaN ELSE Mul(value, factor)

\* value * (table[ingredient] || fallback) * (toUnit === "kg" ? 0.001 : 1)
PerIngredient(value, table, ingredient, fallback, toUnit) ==
    LET found == PropertyLookup(table, ingredient)
        grams == IF found = Absent THEN fallback ELSE found
    IN Mul(TimesFactor(value, grams), IF toUnit = S_kg THEN Num(1, 1000) ELSE One)

convertUnit(value, fromUnit, toUnit, ingredient) ==
    IF fromUnit = toUnit THEN value
    ELSE IF fromUnit = S_g /\ toUnit = S_kg THEN Mul(value, Num(1, 1000))
    ELSE IF fromUnit = S_kg /\ toUnit = S_g THEN Mul(value, Num(1000, 1))
    ELSE IF fromUnit = S_ml /\ toUnit = S_l THEN Mul(value, Num(1, 1000))
    ELSE IF fromUnit = S_l /\ toUnit = S_ml THEN Mul(value, Num(1000, 1))
    ELSE IF fromUnit = S_tbsp /\ toUnit = S_ml THEN Mul(value, Num(15, 1))
    ELSE IF fromUnit = S_tsp /\ toUnit = S_ml THEN Mul(value, Num(5, 1))
    ELSE IF fromUnit = S_cup /\ toUnit = S_ml THEN Mul(value, Num(250, 1))
    ELSE IF fromUnit = S_piece /\ toUnit \in {S_g, S_kg}
    THEN PerIngredient(value, PieceToG, ingredient, Num(100, 1), toUnit)
    ELSE IF fromUnit = S_bulb /\ toUnit \in {S_g, S_kg}
    THEN PerIngredient(value, BulbToG, ingredient, Num(45, 1), toUnit)
    ELSE value

(***************************************************************************)
(* calculatePackageUsage.                                                  *)
(***************************************************************************)
\* unit.match(/a|b|.../i): some alternative occurs in the unit, whatever the case
MatchesAny(unit, alternatives) == IncludesAny(ToLowerCase(unit), alternatives)

WeightPattern == {S_g, S_kg, <<"o", "z">>, <<"l", "b">>}
VolumePattern == {S_ml, S_l, S_tbsp, S_tsp, S_cup}
CountPattern == {S_piece, <<"u", "n", "i", "t">>, <<"p", "a", "c", "k">>, <<"b", "u", "n", "c", "h">>}

\* percentUsed before the cap, from the two parsed quantities
PercentOf(recipeQty, packageQty, ingredient) ==
    LET isRecipeWeight == MatchesAny(recipeQty.unit, WeightPattern)
        isRecipeVolume == MatchesAny(recipeQty.unit, VolumePattern)
        isRecipeCount == MatchesAny(recipeQty.unit, CountPattern)
        isPackageWeight == MatchesAny(packageQty.unit, WeightPattern)
        isPackageVolume == MatchesAny(packageQty.unit, VolumePattern)
        isPackageCount == MatchesAny(packageQty.unit, CountPattern)
        In(unit) == Div(convertUnit(recipeQty.value, recipeQty.unit, unit, ingredient.name),
                        convertUnit(packageQty.value, packageQty.unit, unit, ingredient.name))
    IN IF isRecipeWeight /\ isPackageWeight THEN In(S_g)
       ELSE IF isRecipeVolume /\ isPackageVolume THEN In(S_ml)
       ELSE IF isRecipeCount /\ isPackageCount THEN Div(recipeQty.value, packageQty.value)
       ELSE IF isRecipeCount /\ isPackageWeight THEN In(S_g)
       ELSE Num(1, 2)

\* percentUsed before the cap: each quantity is parsed once
RawPercentUsed(ingredient, packageInfo) ==
    CHOOSE r \in {PercentOf(recipeQty, packageQty, ingredient) :
                    recipeQty \in {parseQuantity(ingredient.quantity)},
                    packageQty \in {parseQuantity(packageInfo.size)}} : TRUE

calculatePackageUsage(ingredient, packageInfo) ==
    LET Result(percentUsed) ==
            [percentUsed |-> percentUsed,
             packagePrice |-> packageInfo.price,
             usedCost |-> Mul(packageInfo.price, percentUsed),
             packageSize |-> packageInfo.size]
    IN CHOOSE r \in {Result(percentUsed) :
                       percentUsed \in {MathMin1(RawPercentUsed(ingredient, packageInfo))}} : TRUE

(***************************************************************************)
(* SpecUsage: calculatePackageUsage applied to one ingredient and one      *)
(* package descriptor.  usage is [ingredient, packageInfo, result]; result *)
(* is Null until the call has returned.                                    *)
(***************************************************************************)
UsageNames == {S_chicken_breast, S_garlic, S_salt, S_constructor}
\* the numeric run of a quantity string, none included
Numerals == {<<>>, <<"0">>, <<"2">>, <<"5", "0", "0">>, <<"0", ".", "5">>, <<".">>, <<"1", ".", "5", ".", "2">>}
Separators == {<<>>, <<" ">>}
UnitTokens ==
    {<<>>, S_g, S_kg, <<"K", "g">>, S_ml, S_l, S_tbsp, S_tsp, S_cup, S_piece,
     <<"p", "i", "e", "c", "e", "s">>, S_bulb, <<"o", "z">>, <<"b", "u", "n", "c", "h">>,
     <<"l", "b">>, <<"L">>, <<"p", "a", "c", "k">>}
Quantities == {n \o s \o u : n \in Numerals, s \in Separators, u \in UnitTokens}
UsageIngredients == {[name |-> n, quantity |-> q] : n \in UsageNames, q \in Quantities}

\* descriptors of the static table, and descriptors of a cache snapshot
\* whose size holds a zero amount or a numeric run that is no number
UsagePackages ==
    {WithSource(PACKAGE_SIZES[k], HARDCODED) :
        k \in {S_chicken_breast, <<"f", "l", "o", "u", "r">>, <<"o", "l", "i", "v", "e", " ", "o", "i", "l">>, <<"v", "e", "g", "e", "t", "a", "b", "l", "e", " ", "o", "i", "l">>,
               S_garlic, <<"b", "e", "l", "l", " ", "p", "e", "p", "p", "e", "r">>, <<"s", "p", "r", "i", "n", "g", " ", "o", "n", "i", "o", "n">>}}
    \cup {[size |-> s, price |-> Num(349, 100), source |-> PACKAGE_CACHE] :
            s \in {<<"0", "g">>, <<"0", " ", "p", "a", "c", "k">>, <<".", ".", "5", "m", "l">>,
                   <<"2", " ", "b", "u", "l", "b">>}}

InitUsage ==
    /\ now = 0
    /\ SPOONACULAR_API_KEY = FALSE
    /\ packageSizeCache = NewCache
    /\ ingredientPriceCache = NewCache
    /\ calls = IdleCalls
    /\ prev = EmptyMap
    /\ cacheLog = IdleLog
    /\ usage \in {[ingredient |-> i, packageInfo |-> p, result |-> Null] :
                    i \in UsageIngredients, p \in UsagePackages}
    /\ shopping = IdleShopping

CalculatePackageUsage ==
    /\ usage.result = Null
    /\ usage' = [usage EXCEPT !.result = calculatePackageUsage(usage.ingredient, usage.packageInfo)]
    /\ UNCHANGED <<now, SPOONACULAR_API_KEY, packageSizeCache, ingredientPriceCache,
                   calls, prev, cacheLog, shopping>>

NextUsage == CalculatePackageUsage

SpecUsage == InitUsage /\ [][NextUsage]_vars

(***************************************************************************)
(* Properties of computeUsage (calculatePackageUsage), under SpecUsage.    *)
(***************************************************************************)
UsageDone == usage.result # Null

\* x === y on numbers: NaN equals nothing, itself included
StrictEquals(x, y) == ~IsNaN(x) /\ ~IsNaN(y) /\ x = y

\* C9: for every quantity string and every package descriptor, the
\* percentUsed that computeUsage returns is a number in the closed interval
\* [0, 1].
C9_PercentUsedInUnitInterval ==
    UsageDone =>
        /\ Le(Zero, usage.result.percentUsed)
        /\ Le(usage.result.percentUsed, One)

\* C10: in every result of computeUsage, usedCost equals packagePrice
\* multiplied by the returned percentUsed, packagePrice is the descriptor's
\* price and packageSize is the descriptor's size.
C10_UsedCostIsProduct ==
    UsageDone =>
        /\ StrictEquals(usage.result.usedCost,
                        Mul(usage.result.packagePrice, usage.result.percentUsed))
        /\ usage.result.packagePrice = usage.packageInfo.price
        /\ usage.result.packageSize = usage.packageInfo.size

\* the amount of one unit in its category's canonical unit (grams,
\* millilitres, a count), for the units the conversion table gives a factor
CanonicalFactor ==
    S_g :> One @@ S_kg :> Num(1000, 1) @@
    S_ml :> One @@ S_l :> Num(1000, 1) @@ <<"L">> :> Num(1000, 1) @@
    S_tbsp :> Num(15, 1) @@ S_tsp :> Num(5, 1) @@ S_cup :> Num(250, 1) @@
    S_piece :> One @@ <<"u", "n", "i", "t">> :> One @@ <<"p", "a", "c", "k">> :> One @@ <<"b", "u", "n", "c", "h">> :> One
UnitCategory ==
    S_g :> "weight" @@ S_kg :> "weight" @@ <<"o", "z">> :> "weight" @@ <<"l", "b">> :> "weight" @@
    S_ml :> "volume" @@ S_l :> "volume" @@ <<"L">> :> "volume" @@
    S_tbsp :> "volume" @@ S_tsp :> "volume" @@ S_cup :> "volume" @@
    S_piece :> "count" @@ <<"u", "n", "i", "t">> :> "count" @@ <<"p", "a", "c", "k">> :> "count" @@ <<"b", "u", "n", "c", "h">> :> "count"

RecipeQty == parseQuantity(usage.ingredient.quantity)
PackageQty == parseQuantity(usage.packageInfo.size)
\* both amounts are numbers and the package amount is not zero
ValidAmounts ==
    /\ ~IsNaN(RecipeQty.value) /\ ~IsNaN(PackageQty.value)
    /\ Gt(PackageQty.value, Zero)

\* C11: when the recipe unit and the package unit fall in the same category,
\* percentUsed is min(1, recipeAmount / packageAmount) with both amounts in
\* the category's canonical unit (grams, millilitres, a count): 2 tbsp of a
\* 1L package is 30 ml / 1000 ml.
C11_SameCategoryCanonical ==
    (/\ UsageDone
     /\ ValidAmounts
     /\ RecipeQty.unit \in DOMAIN CanonicalFactor
     /\ PackageQty.unit \in DOMAIN CanonicalFactor
     /\ UnitCategory[RecipeQty.unit] = UnitCategory[PackageQty.unit])
    => usage.result.percentUsed =
         MathMin1(Div(Mul(RecipeQty.value, CanonicalFactor[RecipeQty.unit]),
                      Mul(PackageQty.value, CanonicalFactor[PackageQty.unit])))

\* the unit is a count and nothing else
CountOnly(unit) ==
    /\ MatchesAny(unit, CountPattern)
    /\ ~MatchesAny(unit, WeightPattern)
    /\ ~MatchesAny(unit, VolumePattern)
\* the grams of one piece of the ingredient: the table's, 100 when not listed
GramsPerPiece(name) == IF name \in DOMAIN PieceToG THEN PieceToG[name] ELSE Num(100, 1)

\* C12: when the recipe quantity is a count (a unit matching piece, unit,
\* pack or bunch, such as "3 pieces") and the package size is a weight,
\* percentUsed is min(1, count * gramsPerPiece / packageGrams), with the
\* ingredient's grams per piece, 100 g for an ingredient that is not listed.
C12_CountToWeight ==
    (/\ UsageDone
     /\ ValidAmounts
     /\ CountOnly(RecipeQty.unit)
     /\ PackageQty.unit \in {S_g, S_kg})
    => usage.result.percentUsed =
         MathMin1(Div(Mul(RecipeQty.value, GramsPerPiece(usage.ingredient.name)),
                      Mul(PackageQty.value, CanonicalFactor[PackageQty.unit])))

\* the unit is one the categories name, or no pattern occurs in it
NamedOrNone(unit) ==
    \/ unit \in DOMAIN UnitCategory
    \/ ~MatchesAny(unit, WeightPattern \cup VolumePattern \cup CountPattern)
CategoryOf(unit) == IF unit \in DOMAIN UnitCategory THEN UnitCategory[unit] ELSE "none"

\* C13: when the categories of the recipe unit and of the package unit
\* differ and the pair is not (count recipe, weight package), or when a unit
\* falls in no category, percentUsed is exactly 0.5 (salt "1 tsp" against
\* the static 750g package).
C13_HalfFallback ==
    (/\ UsageDone
     /\ NamedOrNone(RecipeQty.unit) /\ NamedOrNone(PackageQty.unit)
     /\ \/ CategoryOf(RecipeQty.unit) # CategoryOf(PackageQty.unit)
        \/ CategoryOf(RecipeQty.unit) = "none"
     /\ ~(CategoryOf(RecipeQty.unit) = "count" /\ CategoryOf(PackageQty.unit) = "weight"))
    => usage.result.percentUsed = Num(1, 2)

\* the static descriptor of chicken breast, as getPackageInfo returns it
ChickenBreastPackage == WithSource(PACKAGE_SIZES[S_chicken_breast], HARDCODED)

\* C14: when the recipe quantity string equals the package size string, its
\* numeric value is positive and its unit falls in a category, percentUsed
\* is 1 and usedCost is the package price; chicken breast "500g" against
\* the static package {500g, 5.99} gives 1 and 5.99 with the hardcoded tag.
C14_SameQuantityWholePackage ==
    /\ (/\ UsageDone
        /\ usage.ingredient.quantity = usage.packageInfo.size
        /\ Gt(RecipeQty.value, Zero)
        /\ MatchesAny(RecipeQty.unit, WeightPattern \cup VolumePattern \cup CountPattern))
       => /\ usage.result.percentUsed = One
          /\ usage.result.usedCost = usage.result.packagePrice
    /\ (/\ UsageDone
        /\ usage.ingredient = [name |-> S_chicken_breast, quantity |-> <<"5", "0", "0", "g">>]
        /\ usage.packageInfo = ChickenBreastPackage)
       => /\ usage.result.percentUsed = One
          /\ usage.result.usedCost = Num(599, 100)
          /\ usage.packageInfo.source = HARDCODED

(***************************************************************************)
(* The price collaborator (src/services/ingredientPriceService.js), as far *)
(* as calculateShoppingCost and the price cache see it.                    *)
(***************************************************************************)
\* \w of a regular expression
WordSet == Range(UpperChars) \cup Range(LowerChars) \cup Range(DigitChars) \cup {"_"}

\* quantity.match(/^([\d.]+)\s*(\w+)$/): as QuantityMatch, with a rest made
\* of word characters
CostQuantityMatch(s) ==
    LET n == PrefixLen(s, NumericSet)
        Fits(k, w) == /\ k + w < Len(s)
                      /\ \A i \in (k + 1)..(k + w) : IsSpace(s[i])
                      /\ \A i \in (k + w + 1)..Len(s) : s[i] \in WordSet
        ks == {k \in 1..n : \E w \in 0..Len(s) : Fits(k, w)}
    IN IF ks = {} THEN Null
       ELSE LET k == CHOOSE x \in ks : \A y \in ks : y <= x
                ws == {w \in 0..Len(s) : Fits(k, w)}
                w == CHOOSE x \in ws : \A y \in ws : y <= x
            IN [number |-> SubSeq(s, 1, k), rest |-> SubSeq(s, k + w + 1, Len(s))]

\* { price: null, unit: null, source: ... }: the collaborator has no data
NoPriceData == [price |-> Null, unit |-> Null, source |-> S_spoonacular]

\* !priceData.price
PriceFalsy(price) == price = Null \/ ~Truthy(price)

\* the total of calculateIngredientCost(ingredient), given what
\* getIngredientPrice(ingredient.name) returned
calculateIngredientCost(ingredient, priceData) ==
    IF PriceFalsy(priceData.price) THEN [total |-> Null]
    ELSE LET quantityMatch == CostQuantityMatch(ingredient.quantity)
         IN IF quantityMatch = Null THEN [total |-> priceData.price]
            ELSE LET unit == ToLowerCase(quantityMatch.rest)
                     priceUnit == ToLowerCase(priceData.unit)
                     conversionFactor ==
                         IF Includes(unit, S_g) /\ Includes(priceUnit, S_kg) THEN Num(1, 1000)
                         ELSE IF Includes(unit, S_ml) /\ Includes(priceUnit, S_l) THEN Num(1, 1000)
                         ELSE One
                 IN [total |-> Mul(Mul(ParseFloat(quantityMatch.number), conversionFactor),
                                   priceData.price)]

(***************************************************************************)
(* calculateShoppingCost.                                                  *)
(***************************************************************************)
\* x + y
Add(x, y) == Num(x.n * y.d + y.n * x.d, x.d * y.d)
\* x - y
Sub(x, y) == Num(x.n * y.d - y.n * x.d, x.d * y.d)

RECURSIVE SumOf(_, _)
\* items.reduce((sum, item) => sum + item[field], 0)
SumOf(items, field) ==
    IF items = <<>> THEN Zero
    ELSE Add(SumOf(SubSeq(items, 1, Len(items) - 1), field), items[Len(items)][field])

PACKAGE_DATABASE == <<"p", "a", "c", "k", "a", "g", "e", " ", "d", "a", "t", "a", "b", "a", "s", "e">>

\* PackageCost with the collaborator's cost, when there is one, as the
\* package price
PackageCost_ApiPrice(ingredient, packageInfo) ==
    LET Element(calculation) ==
            [name |-> ingredient.name, quantity |-> ingredient.quantity,
             apiCost |-> ingredient.apiCost,
             packageSize |-> packageInfo.size,
             packagePrice |-> IF PriceFalsy(ingredient.apiCost) THEN packageInfo.price
                              ELSE ingredient.apiCost,
             percentUsed |-> calculation.percentUsed,
             costInRecipe |-> calculation.usedCost,
             source |-> IF "source" \in DOMAIN packageInfo THEN packageInfo.source
                        ELSE PACKAGE_DATABASE]
    IN CHOOSE r \in {Element(calculation) :
                       calculation \in {calculatePackageUsage(ingredient, packageInfo)}} : TRUE

\* the element of packageCosts for one ingredient: lines 554-563
PackageCost(ingredient, packageInfo) ==
    LET Element(calculation) ==
            [name |-> ingredient.name, quantity |-> ingredient.quantity,
             apiCost |-> ingredient.apiCost,
             packageSize |-> packageInfo.size,
             packagePrice |-> packageInfo.price,
             percentUsed |-> calculation.percentUsed,
             costInRecipe |-> calculation.usedCost,
             source |-> IF "source" \in DOMAIN packageInfo THEN packageInfo.source
                        ELSE PACKAGE_DATABASE]
    IN CHOOSE r \in {Element(calculation) :
                       calculation \in {calculatePackageUsage(ingredient, packageInfo)}} : TRUE

\* lines 566-581: the totals and the summary
Summary(packageCosts) ==
    LET Totals(totalPackagePrice, totalRecipeCost) ==
            [ingredients |-> packageCosts,
             totalPackagePrice |-> totalPackagePrice,
             totalRecipeCost |-> totalRecipeCost,
             leftoverValue |-> Sub(totalPackagePrice, totalRecipeCost)]
    IN CHOOSE r \in {Totals(totalPackagePrice, totalRecipeCost) :
                       totalPackagePrice \in {SumOf(packageCosts, "packagePrice")},
                       totalRecipeCost \in {SumOf(packageCosts, "costInRecipe")}} : TRUE

\* the fallback element of lines 545-553, for a falsy packageInfo
FallbackCost(ingredient) ==
    LET cost == IF PriceFalsy(ingredient.apiCost) THEN Zero ELSE ingredient.apiCost
    IN [name |-> ingredient.name, quantity |-> ingredient.quantity,
        apiCost |-> ingredient.apiCost,
        packageSize |-> <<"u", "n", "k", "n", "o", "w", "n">>, packagePrice |-> cost,
        percentUsed |-> One, costInRecipe |-> cost, source |-> <<"a", "p", "i", " ", "f", "a", "l", "l", "b", "a", "c", "k">>]

\* the value the i-th mapper of Promise.all resolves with, placed by arrival
\* rather than by index
Settled_ByArrival(results, i, value) ==
    LET free == {j \in DOMAIN results : results[j] = Null}
    IN [results EXCEPT ![CHOOSE j \in free : \A k \in free : j <= k] = value]

\* Promise.all: the value the i-th mapper resolves with is the i-th result
Settled(results, i, value) == [results EXCEPT ![i] = value]

(***************************************************************************)
(* SpecShop: one invocation of calculateShoppingCost.  shopping is         *)
(*   pc           "prices", "packages" or "done"                           *)
(*   ingredients  the argument                                             *)
(*   remote       what the product search and the product detail request   *)
(*                answer                                                   *)
(*   prices       per ingredient, the state of its getIngredientPrice call *)
(*   apiCosts, packageCosts   the results of the two Promise.all           *)
(*   outOfOrder   history: some package lookup completed before one of an  *)
(*                earlier ingredient                                       *)
(*   cache0, priced0   history: the package cache when the invocation and  *)
(*                the price cache when the package lookups started         *)
(*   summary      the value returned                                       *)
(* The getPackageInfo invocation of the i-th ingredient is calls[i].       *)
(***************************************************************************)
ShopIngredients ==
    {[name |-> S_chicken_breast, quantity |-> <<"5", "0", "0", "g">>],
     [name |-> S_oat_milk, quantity |-> <<".", "m", "l">>],
     [name |-> <<" ", "O", "a", "t", " ", "M", "I", "L", "K", " ">>, quantity |-> <<"2", " ", "t", "b", "s", "p">>]}
ShopLists ==
    UNION {[1..n -> ShopIngredients] : n \in 1..MaxIngredients}

\* the answers of the product search and of the product detail request
NoRemote == [search |-> "none", detail |-> [data |-> Null]]
ShopRemotes ==
    {NoRemote, [search |-> "rejected", detail |-> [data |-> Null]]}
    \cup {[search |-> "product", detail |-> [data |-> p]] :
            p \in {Product([str |-> <<"2", "0", "0", " ", "g">>], Absent, Absent, [num |-> Num(250, 100)]),
                   Product([str |-> <<"0", "g">>], [num |-> Num(4, 1)], [str |-> <<"1", ".", "5", "0", " ", "k", "g">>], Absent)}}

\* what the price collaborator's remote lookups can end in: no data (or a
\* failed request), or a price
PriceOutcomes ==
    {NoPriceData, [price |-> Num(35, 100), unit |-> S_piece, source |-> S_spoonacular]}

\* a price-cache snapshot that holds an entry without a price
ShopPriceCaches ==
    {EmptyMap,
     S_oat_milk :> [value |-> [price |-> Zero, unit |-> S_piece, source |-> S_spoonacular],
                    expiry |-> PriceTtl]}

ShopPackageCaches ==
    {EmptyMap,
     S_oat_milk :> [value |-> [size |-> S_500ml, price |-> Num(399, 100)], expiry |-> PackageTtl]}

NewShopping(ingredients, remote) ==
    [pc |-> "prices", ingredients |-> ingredients, remote |-> remote,
     prices |-> [i \in DOMAIN ingredients |-> [pc |-> "idle"]],
     apiCosts |-> [i \in DOMAIN ingredients |-> Null],
     packageCosts |-> [i \in DOMAIN ingredients |-> Null],
     outOfOrder |-> FALSE, cache0 |-> packageSizeCache, priced0 |-> Null,
     summary |-> Null]

InitShop ==
    /\ now = 0
    /\ SPOONACULAR_API_KEY \in BOOLEAN
    /\ packageSizeCache \in {[cache |-> m, file |-> m] : m \in ShopPackageCaches}
    /\ ingredientPriceCache \in {[cache |-> m, file |-> m] : m \in ShopPriceCaches}
    /\ calls = IdleCalls
    /\ prev = EmptyMap
    /\ cacheLog = IdleLog
    /\ usage = Null
    /\ shopping \in {NewShopping(l, r) : l \in ShopLists, r \in ShopRemotes}
    \* without a key no request is ever sent
    /\ ~SPOONACULAR_API_KEY => shopping.remote = NoRemote

Indices == DOMAIN shopping.ingredients

\* the i-th getIngredientPrice call returns priceData: lines 528-533, and
\* the second Promise.all starts once the first has all its results
PriceReturned(i, priceData) ==
    LET ingredient == shopping.ingredients[i]
        apiCost == calculateIngredientCost(ingredient, priceData).total
        apiCosts == Settled(shopping.apiCosts, i,
                            [name |-> ingredient.name, quantity |-> ingredient.quantity,
                             apiCost |-> apiCost])
        all == \A j \in Indices : apiCosts[j] # Null
    IN [shopping EXCEPT !.prices[i] = [pc |-> "done"],
                        !.apiCosts = apiCosts,
                        !.pc = IF all THEN "packages" ELSE @,
                        !.priced0 = IF all THEN ingredientPriceCache' ELSE @]

\* the synchronous head of the i-th calculateIngredientCost, run by the map
\* of line 527 in index order: getIngredientPrice up to its first await
PriceStart(i) ==
    /\ shopping.pc = "prices"
    /\ i \in Indices
    /\ shopping.prices[i].pc = "idle"
    /\ \A j \in Indices : j < i => shopping.prices[j].pc # "idle"
    /\ LET cachedData == SimpleCache_get(ingredientPriceCache, shopping.ingredients[i].name, now)
       IN /\ ingredientPriceCache' = cachedData.self
          /\ IF cachedData.ret # Null THEN shopping' = PriceReturned(i, cachedData.ret)
             ELSE IF ~SPOONACULAR_API_KEY THEN shopping' = PriceReturned(i, NoPriceData)
             ELSE shopping' = [shopping EXCEPT !.prices[i] = [pc |-> "await"]]
    /\ UNCHANGED <<now, SPOONACULAR_API_KEY, packageSizeCache, calls, prev, cacheLog, usage>>

\* the remote lookups of the i-th getIngredientPrice end: a price is cached
\* under the name as given
PriceResponse(i, outcome) ==
    /\ shopping.pc = "prices"
    /\ i \in Indices
    /\ shopping.prices[i].pc = "await"
    /\ \A j \in Indices : shopping.prices[j].pc # "idle"
    /\ ingredientPriceCache' =
          IF outcome = NoPriceData THEN ingredientPriceCache
          ELSE SimpleCache_set(ingredientPriceCache, shopping.ingredients[i].name, outcome, now)
    /\ shopping' = PriceReturned(i, outcome)
    /\ UNCHANGED <<now, SPOONACULAR_API_KEY, packageSizeCache, calls, prev, cacheLog, usage>>

AllStarted == \A j \in Indices : calls[j].pc # "idle"

\* a continuation that needs no response is queued: the event loop runs it
\* before it delivers the next response
MicrotaskQueued ==
    \E j \in Indices :
        \/ calls[j].pc = "awaitPrice"
        \/ calls[j].pc = "done" /\ shopping.packageCosts[j] = Null

\* the map of line 538 has reached the i-th ingredient
HeadPending(i) ==
    /\ shopping.pc = "packages"
    /\ i \in Indices
    /\ calls[i].pc = "idle"
    /\ \A j \in Indices : j < i => calls[j].pc # "idle"
\* the response to the i-th product detail request can be delivered
DetailPending(i) ==
    /\ shopping.pc = "packages" /\ i \in Indices /\ AllStarted /\ ~MicrotaskQueued
    /\ calls[i].pc = "awaitDetail"
\* the i-th getPackageInfo has returned and its mapper has not resumed yet
SettlePending(i) ==
    /\ shopping.pc = "packages" /\ i \in Indices /\ AllStarted
    /\ calls[i].pc = "done"
    /\ shopping.packageCosts[i] = Null

\* the synchronous head of the i-th mapper of line 538, run in index order:
\* getPackageInfo(ingredient.name.toLowerCase()) up to its first await
ShopGetPackageInfo(i) ==
    /\ HeadPending(i)
    /\ GetPackageInfo(i, ToLowerCase(shopping.ingredients[i].name))

\* the continuations after the await of line 243, in the order queued
ShopAfterPriceInfo(i) ==
    /\ shopping.pc = "packages" /\ i \in Indices /\ AllStarted
    /\ \A j \in Indices : j < i => calls[j].pc # "awaitPrice"
    /\ AfterPriceInfo(i)

\* ShopSearchResponse with the responses delivered in the order of the requests
ShopSearchResponse_InOrder(i) ==
    /\ shopping.pc = "packages" /\ i \in Indices /\ AllStarted /\ ~MicrotaskQueued
    /\ \A j \in Indices : j < i => calls[j].pc \notin {"awaitSearch", "awaitDetail"}
    /\ SearchResponse(i, shopping.remote.search)

\* the responses of the remote lookups, in any order
ShopSearchResponse(i) ==
    /\ shopping.pc = "packages" /\ i \in Indices /\ AllStarted /\ ~MicrotaskQueued
    /\ SearchResponse(i, shopping.remote.search)
ShopDetailResponse(i) ==
    /\ DetailPending(i)
    /\ DetailResponse(i, shopping.remote.detail)

\* lines 541-563 for the i-th ingredient once its getPackageInfo has
\* returned, and lines 566-581 once every element is there
ShopSettle(i) ==
    /\ SettlePending(i)
    /\ \E element \in {IF calls[i].result = Null THEN FallbackCost(shopping.apiCosts[i])
                        ELSE PackageCost(shopping.apiCosts[i], calls[i].result)} :
       \E packageCosts \in {Settled(shopping.packageCosts, i, element)} :
          LET all == \A j \in Indices : packageCosts[j] # Null
          IN \E summary \in {IF all THEN Summary(packageCosts) ELSE shopping.summary} :
                shopping' = [shopping EXCEPT
                                !.packageCosts = packageCosts,
                                !.outOfOrder =
                                    @ \/ \E j \in Indices : j < i /\ calls[j].pc # "done",
                                !.pc = IF all THEN "done" ELSE @,
                                !.summary = summary]
    /\ UNCHANGED <<now, SPOONACULAR_API_KEY, packageSizeCache, ingredientPriceCache,
                   calls, prev, cacheLog, usage>>

NextShop ==
    \/ \E i \in Slots : PriceStart(i)
    \/ \E i \in Slots, outcome \in PriceOutcomes : PriceResponse(i, outcome)
    \/ \E i \in Slots : ShopGetPackageInfo(i)
    \/ \E i \in Slots : ShopAfterPriceInfo(i)
    \/ \E i \in Slots : ShopSearchResponse(i)
    \/ \E i \in Slots : ShopDetailResponse(i)
    \/ \E i \in Slots : ShopSettle(i)

SpecShop == InitShop /\ [][NextShop]_vars

(***************************************************************************)
(* Properties of calculateShoppingCost, under SpecShop.                    *)
(***************************************************************************)
ShopDone == shopping.pc = "done"

\* C15: for every ingredient list, totalPackagePrice is the sum of the
\* elements' packagePrice, totalRecipeCost the sum of their costInRecipe,
\* leftoverValue is totalPackagePrice - totalRecipeCost, and leftoverValue
\* is at least 0.
C15_TotalsAndLeftover ==
    ShopDone =>
        LET summary == shopping.summary
        IN /\ StrictEquals(summary.totalPackagePrice,
                           SumOf(summary.ingredients, "packagePrice"))
           /\ StrictEquals(summary.totalRecipeCost,
                           SumOf(summary.ingredients, "costInRecipe"))
           /\ StrictEquals(summary.leftoverValue,
                           Sub(summary.totalPackagePrice, summary.totalRecipeCost))
           /\ Le(Zero, summary.leftoverValue)

\* C16: for every ingredient list and every order in which the lookups
\* complete, the ingredients of the summary are as many as the input's and
\* the i-th carries the name and the quantity of the i-th input ingredient.
C16_OutputFollowsInputOrder ==
    ShopDone =>
        /\ Len(shopping.summary.ingredients) = Len(shopping.ingredients)
        /\ \A i \in Indices :
              /\ shopping.summary.ingredients[i].name = shopping.ingredients[i].name
              /\ shopping.summary.ingredients[i].quantity = shopping.ingredients[i].quantity

\* a summary of two different ingredients whose lookups completed in the
\* reverse order
C16_Witness ==
    /\ ShopDone
    /\ shopping.outOfOrder
    /\ Len(shopping.ingredients) = 2
    /\ shopping.ingredients[1] # shopping.ingredients[2]

\* the descriptor the remote tier yields for what the product requests
\* answer, given the price information the invocation holds
RemoteDescriptor(n, remote, priceInfo) ==
    LET estimate == WithSource(estimatePackageInfo(n), ESTIMATED)
        afterError == WithSource(estimatePackageInfo(n), ESTIMATED_AFTER_ERROR)
    IN IF remote.search \in {"rejected", "malformed"} THEN afterError
       ELSE IF remote.search = "none" THEN estimate
       ELSE IF "rejected" \in DOMAIN remote.detail THEN afterError
       ELSE IF remote.detail.data = Null THEN estimate
       ELSE LET extracted == extractPackageSizeFromProduct(remote.detail.data)
            IN IF extracted.threw THEN afterError
               ELSE IF extracted.value = Null THEN estimate
               ELSE WithSource([size |-> extracted.value.size,
                                price |-> PackagePrice(extracted.value, priceInfo)],
                               SPOONACULAR_API)

\* the normalized name getPackageInfo derives for the i-th ingredient
LookupName(i) == NormalizeName(ToLowerCase(shopping.ingredients[i].name))

\* the descriptor of the i-th ingredient as a function of the list, the
\* package cache on entry, the product data and the price information given.
\* Without a key the estimate is cached before the next mapper starts, so a
\* later ingredient of the same name finds it in the package cache.
ExpectedDescriptor(i, priceInfo) ==
    LET n == LookupName(i)
    IN IF n \in DOMAIN PACKAGE_SIZES THEN WithSource(PACKAGE_SIZES[n], HARDCODED)
       ELSE IF n \in DOMAIN shopping.cache0.cache
       THEN WithSource(shopping.cache0.cache[n].value, PACKAGE_CACHE)
       ELSE IF ~SPOONACULAR_API_KEY
       THEN WithSource(estimatePackageInfo(n),
                       IF \E j \in Indices : j < i /\ LookupName(j) = n
                       THEN PACKAGE_CACHE ELSE ESTIMATED)
       ELSE IF ~NoPrice(priceInfo)
       THEN WithSource(estimatePackageInfo(n), ESTIMATED)
       ELSE RemoteDescriptor(n, shopping.remote, priceInfo)

\* the fields of a summary element other than apiCost
PackageFields(element) ==
    [f \in {"name", "quantity", "packageSize", "packagePrice", "percentUsed",
            "costInRecipe", "source"} |-> element[f]]

\* the same fields, computed from a descriptor
ExpectedFields(ingredient, d) ==
    LET calculation == calculatePackageUsage(ingredient, d)
    IN [name |-> ingredient.name, quantity |-> ingredient.quantity,
        packageSize |-> d.size, packagePrice |-> d.price,
        percentUsed |-> calculation.percentUsed,
        costInRecipe |-> calculation.usedCost, source |-> d.source]

\* the summary's elements and totals are those of the descriptors given
SummaryFrom(descriptors) ==
    LET expected == [i \in Indices |-> ExpectedFields(shopping.ingredients[i], descriptors[i])]
    IN /\ \A i \in Indices : PackageFields(shopping.summary.ingredients[i]) = expected[i]
       /\ shopping.summary.totalPackagePrice = SumOf(expected, "packagePrice")
       /\ shopping.summary.totalRecipeCost = SumOf(expected, "costInRecipe")

\* what the price cache held under the normalized name of the i-th
\* ingredient when the package lookups started
PricedAtLookup(i) ==
    LET n == LookupName(i)
    IN IF n \in DOMAIN shopping.priced0.cache THEN shopping.priced0.cache[n].value ELSE Null

C18_ListingIsUnion ==
    /\ DOMAIN getAllPackageSizes = DOMAIN PACKAGE_SIZES \cup DOMAIN packageSizeCache.cache
    /\ \A key \in DOMAIN getAllPackageSizes :
          SizePrice(getAllPackageSizes[key]) =
              IF key \in DOMAIN PACKAGE_SIZES THEN SizePrice(PACKAGE_SIZES[key])
              ELSE SizePrice(packageSizeCache.cache[key].value)

\* a cache that holds a name of the static table with another size and
\* price, next to a name the table lacks, whose entry has expired
C18_Witness ==
    /\ \E key \in DOMAIN packageSizeCache.cache \cap DOMAIN PACKAGE_SIZES :
          SizePrice(packageSizeCache.cache[key].value) # SizePrice(PACKAGE_SIZES[key])
    /\ \E key \in DOMAIN packageSizeCache.cache \ DOMAIN PACKAGE_SIZES :
          /\ now > packageSizeCache.cache[key].expiry
          /\ getAllPackageSizes[key].source = PACKAGE_CACHE


(***************************************************************************)
(* Properties of set and of the snapshot file, under SpecCache.            *)
(***************************************************************************)
\* the step is a set on the cache under study
SetStep == cacheLog' # cacheLog /\ cacheLog'.last.op = "set"

\* C19: set(k, v) at time t returns v and leaves an entry for k with value v
\* and expiry t + ttl, in place of any entry k had, and the entries of all
\* other keys as they were.
C19_SetStoresAndReturns ==
    [][SetStep =>
          LET k == cacheLog'.last.key
              v == cacheLog'.sets[k].value
          IN /\ cacheLog'.last.ret = v
             /\ DOMAIN TargetCache'.cache = DOMAIN TargetCache.cache \cup {k}
             /\ TargetCache'.cache[k] = [value |-> v, expiry |-> now + TargetTtl]
             /\ \A j \in DOMAIN TargetCache.cache \ {k} :
                   TargetCache'.cache[j] = TargetCache.cache[j]]_vars

\* a set that has just replaced an entry of another value and an earlier
\* expiry, while another key is resident
C19_Witness ==
    /\ cacheLog.last # Null
    /\ cacheLog.last.op = "set"
    /\ cacheLog.last.at = now
    /\ cacheLog.last.replaced # Null
    /\ cacheLog.last.replaced.value # cacheLog.last.ret
    /\ cacheLog.last.replaced.expiry < TargetCache.cache[cacheLog.last.key].expiry
    /\ DOMAIN TargetCache.cache = CacheKeys


\* the last operation changed the map and its write succeeded
WrittenMutation ==
    cacheLog.last # Null /\ cacheLog.last.mutated /\ cacheLog.last.written

\* C20: after every mutation (a set, a get that evicts, a clear) whose write
\* succeeds, the snapshot holds exactly the keys, values and expiries of the
\* in-memory map; after a clear both are empty.
C20_SnapshotMirrorsMap ==
    WrittenMutation =>
        /\ TargetCache.file = TargetCache.cache
        /\ cacheLog.last.op = "clear" =>
              TargetCache.cache = EmptyMap /\ TargetCache.file = EmptyMap

(***************************************************************************)
(* loadFromFile.  The content of the backing file at construction is       *)
(* [kind |-> "absent"], [kind |-> "unreadable"] (readFileSync throws),     *)
(* [kind |-> "invalid"] (JSON.parse throws), [kind |-> "null"] (the JSON   *)
(* text null) or [kind |-> "object", entries |-> the properties of the     *)
(* parsed object in the order of Object.keys].  A property's item is a     *)
(* record, or Null for the JSON text null.                                 *)
(***************************************************************************)
Unexpired_Strict(expiry, t) == t < expiry
\* Date.now() <= cacheObj[key].expiry
Unexpired(expiry, t) == t <= expiry

RECURSIVE LoadEntries(_, _, _)
\* the forEach of lines 64-69: an item that is null throws at .expiry, with
\* the items before it already in the map; an item without expiry, or with
\* one that has passed, is skipped
LoadEntries(entries, cache, t) ==
    IF entries = <<>> THEN [cache |-> cache, threw |-> FALSE]
    ELSE IF Head(entries).item = Null THEN [cache |-> cache, threw |-> TRUE]
    ELSE IF "expiry" \in DOMAIN Head(entries).item /\ Unexpired(Head(entries).item.expiry, t)
    THEN LoadEntries(Tail(entries), MapPut(cache, Head(entries).key, Head(entries).item), t)
    ELSE LoadEntries(Tail(entries), cache, t)

\* the try block of loadFromFile on a new instance at time t
ReadSnapshot(content, t) ==
    IF content.kind = "absent" THEN [cache |-> EmptyMap, threw |-> FALSE]
    ELSE IF content.kind \in {"unreadable", "invalid", "null"}
    THEN [cache |-> EmptyMap, threw |-> TRUE]
    ELSE LoadEntries(content.entries, EmptyMap, t)

\* what a later JSON.parse of the file would give: the properties of the
\* object, none when there is no file or no object in it
FileOf(content) ==
    IF content.kind = "object"
    THEN [key \in {content.entries[i].key : i \in DOMAIN content.entries} |->
             (CHOOSE e \in {content.entries[i] : i \in DOMAIN content.entries} : e.key = key).item]
    ELSE EmptyMap

\* new SimpleCache() at time t over a file of the given content; the write of
\* the catch block succeeds or not
SimpleCache_loadFromFile(content, t, ok) ==
    LET read == ReadSnapshot(content, t)
        self == [cache |-> read.cache, file |-> FileOf(content)]
    IN IF read.threw /\ ok THEN SimpleCache_saveToFile(self) ELSE self

\* new PackageSizeCache() at time t over a file of the given content
PackageSizeCache_loadFromFile(content, t, ok) ==
    LET read == ReadSnapshot(content, t)
        self == [cache |-> read.cache, file |-> FileOf(content)]
    IN IF read.threw /\ ok THEN PackageSizeCache_saveToFile(self) ELSE self

(***************************************************************************)
(* SpecLoad: one cache is constructed at some time over some content of    *)
(* its backing file.  cacheLog is [target, disk, constructed, threw,       *)
(* written]: the content found and what loadFromFile did.                  *)
(***************************************************************************)
\* the expiries stored in the snapshots
MaxExpiry == 2
SnapshotValue(target) ==
    IF target = "price" THEN [price |-> Num(35, 100), unit |-> S_piece, source |-> S_spoonacular]
    ELSE [size |-> S_500ml, price |-> Num(399, 100)]
\* the items of a snapshot: entries as saveToFile writes them, the JSON text
\* null, and an object without expiry
SnapshotItems(target) ==
    {[value |-> SnapshotValue(target), expiry |-> e] : e \in 1..MaxExpiry}
    \cup {Null, [value |-> SnapshotValue(target)]}
SnapshotEntries(target) ==
    {<<>>}
    \cup {<<[key |-> k, item |-> x]>> : k \in CacheKeys, x \in SnapshotItems(target)}
    \cup {es \in {<<[key |-> k1, item |-> x1], [key |-> k2, item |-> x2]>> :
                      k1 \in CacheKeys, k2 \in CacheKeys,
                      x1 \in SnapshotItems(target), x2 \in SnapshotItems(target)} :
             es[1].key # es[2].key}
SnapshotFiles(target) ==
    {[kind |-> k] : k \in {"absent", "unreadable", "invalid", "null"}}
    \cup {[kind |-> "object", entries |-> es] : es \in SnapshotEntries(target)}

InitLoad ==
    /\ now \in 0..MaxTime
    /\ SPOONACULAR_API_KEY = FALSE
    /\ packageSizeCache = NewCache
    /\ ingredientPriceCache = NewCache
    /\ calls = IdleCalls
    /\ prev = EmptyMap
    /\ \E target \in {"price", "package"} :
          cacheLog \in {[target |-> target, disk |-> d, constructed |-> FALSE,
                         threw |-> FALSE, written |-> FALSE] : d \in SnapshotFiles(target)}
    /\ usage = Null
    /\ shopping = IdleShopping

ConstructPriceCache(ok) ==
    /\ cacheLog.target = "price" /\ ~cacheLog.constructed
    /\ ingredientPriceCache' = SimpleCache_loadFromFile(cacheLog.disk, now, ok)
    /\ cacheLog' = [cacheLog EXCEPT !.constructed = TRUE,
                                    !.threw = ReadSnapshot(cacheLog.disk, now).threw,
                                    !.written = ReadSnapshot(cacheLog.disk, now).threw /\ ok]
    /\ UNCHANGED <<now, SPOONACULAR_API_KEY, packageSizeCache, calls, prev, usage, shopping>>

ConstructPackageCache(ok) ==
    /\ cacheLog.target = "package" /\ ~cacheLog.constructed
    /\ packageSizeCache' = PackageSizeCache_loadFromFile(cacheLog.disk, now, ok)
    /\ cacheLog' = [cacheLog EXCEPT !.constructed = TRUE,
                                    !.threw = ReadSnapshot(cacheLog.disk, now).threw,
                                    !.written = ReadSnapshot(cacheLog.disk, now).threw /\ ok]
    /\ UNCHANGED <<now, SPOONACULAR_API_KEY, ingredientPriceCache, calls, prev, usage, shopping>>

NextLoad ==
    \/ \E ok \in BOOLEAN : ConstructPriceCache(ok)
    \/ \E ok \in BOOLEAN : ConstructPackageCache(ok)

SpecLoad == InitLoad /\ [][NextLoad]_vars

\* an item as saveToFile writes it
WellFormedItem(item) ==
    item # Null /\ DOMAIN item = {"value", "expiry"}
\* the snapshot is corrupt or unreadable: no JSON, no object, or an object
\* with a malformed entry
Corrupt(content) ==
    \/ content.kind \in {"unreadable", "invalid", "null"}
    \/ /\ content.kind = "object"
       /\ \E i \in DOMAIN content.entries : ~WellFormedItem(content.entries[i].item)
WellFormed(content) ==
    content.kind = "object" /\ ~Corrupt(content)

\* C21: after construction over a corrupt or unreadable snapshot the cache
\* has no entries, and (the write succeeding) the backing store holds an
\* empty snapshot.
C21_CorruptSnapshotStartsEmpty ==
    (cacheLog.constructed /\ Corrupt(cacheLog.disk)) =>
        /\ TargetCache.cache = EmptyMap
        /\ cacheLog.threw
        /\ cacheLog.written => TargetCache.file = EmptyMap


\* the entries of a snapshot whose expiry is t or later, or later than t
\* when strict, as a map
Kept(content, t, strict) ==
    LET file == FileOf(content)
    IN [key \in {k \in DOMAIN file :
                    IF strict THEN file[k].expiry > t ELSE file[k].expiry >= t} |-> file[key]]

\* C22 as stated: after construction at time t over a well-formed snapshot
\* the map holds exactly the entries whose expiry is after t.
C22_LoadsEntriesExpiringAfterNow ==
    (cacheLog.constructed /\ WellFormed(cacheLog.disk)) =>
        TargetCache.cache = Kept(cacheLog.disk, now, TRUE)

\* C22 amended: after construction at time t over a well-formed snapshot the
\* map holds exactly the entries whose expiry is t or later, each with the
\* value and expiry of the snapshot, and nothing is written; over a missing
\* file the map is empty and nothing is written.
C22_LoadsEntriesNotYetExpired ==
    /\ (cacheLog.constructed /\ WellFormed(cacheLog.disk)) =>
          /\ TargetCache.cache = Kept(cacheLog.disk, now, FALSE)
          /\ TargetCache.file = FileOf(cacheLog.disk)
          /\ ~cacheLog.threw /\ ~cacheLog.written
    /\ (cacheLog.constructed /\ cacheLog.disk.kind = "absent") =>
          /\ TargetCache.cache = EmptyMap
          /\ TargetCache.file = EmptyMap
          /\ ~cacheLog.threw /\ ~cacheLog.written

\* a snapshot of two entries is loaded at the expiry of one and after the
\* expiry of the other: the first is in the map, the second is not
C22_Witness ==
    /\ cacheLog.constructed /\ WellFormed(cacheLog.disk)
    /\ Len(cacheLog.disk.entries) = 2
    /\ \E i, j \in DOMAIN cacheLog.disk.entries :
          /\ cacheLog.disk.entries[i].item.expiry = now
          /\ cacheLog.disk.entries[j].item.expiry < now
          /\ DOMAIN TargetCache.cache = {cacheLog.disk.entries[i].key}
          /\ TargetCache.cache[cacheLog.disk.entries[i].key] = cacheLog.disk.entries[i].item


(***************************************************************************)
(* SpecUnits: parseQuantity applied to one quantity string, or convertUnit *)
(* applied to one value, two units and one ingredient name.  usage is      *)
(* [op, quantity, result] or [op, value, fromUnit, toUnit, ingredient,     *)
(* result, warned]; result is Null until the call has returned.            *)
(***************************************************************************)
\* the conditions of the conversions convertUnit knows
RuleApplies(fromUnit, toUnit) ==
    \/ fromUnit = S_g /\ toUnit = S_kg
    \/ fromUnit = S_kg /\ toUnit = S_g
    \/ fromUnit = S_ml /\ toUnit = S_l
    \/ fromUnit = S_l /\ toUnit = S_ml
    \/ fromUnit \in {S_tbsp, S_tsp, S_cup} /\ toUnit = S_ml
    \/ fromUnit \in {S_piece, S_bulb} /\ toUnit \in {S_g, S_kg}

convertUnit_warn_NoIdentity(fromUnit, toUnit) == ~RuleApplies(fromUnit, toUnit)
\* convertUnit reaches console.warn
convertUnit_warn(fromUnit, toUnit) == fromUnit # toUnit /\ ~RuleApplies(fromUnit, toUnit)

\* quantity strings: those of SpecUsage, and strings that begin with white
\* space or a letter
ParseInputs == Quantities \cup {<<" ", "2", "g">>, <<"g", "2">>, <<"2", "\t", " ", "g", " ">>}
ConvertValues == {Zero, Num(2, 1), Num(1, 2), NaN}
ConvertUnits == UnitTokens

InitUnits ==
    /\ now = 0
    /\ SPOONACULAR_API_KEY = FALSE
    /\ packageSizeCache = NewCache
    /\ ingredientPriceCache = NewCache
    /\ calls = IdleCalls
    /\ prev = EmptyMap
    /\ cacheLog = IdleLog
    /\ usage \in {[op |-> "parseQuantity", quantity |-> q, result |-> Null] : q \in ParseInputs}
                 \cup {[op |-> "convertUnit", value |-> v, fromUnit |-> f, toUnit |-> t,
                        ingredient |-> i, result |-> Null, warned |-> FALSE] :
                          v \in ConvertValues, f \in ConvertUnits, t \in ConvertUnits, i \in UsageNames}
    /\ shopping = IdleShopping

ParseQuantity ==
    /\ usage.op = "parseQuantity" /\ usage.result = Null
    /\ usage' = [usage EXCEPT !.result = parseQuantity(usage.quantity)]
    /\ UNCHANGED <<now, SPOONACULAR_API_KEY, packageSizeCache, ingredientPriceCache,
                   calls, prev, cacheLog, shopping>>

ConvertUnit ==
    /\ usage.op = "convertUnit" /\ usage.result = Null
    /\ usage' = [usage EXCEPT
                    !.result = convertUnit(usage.value, usage.fromUnit, usage.toUnit, usage.ingredient),
                    !.warned = convertUnit_warn(usage.fromUnit, usage.toUnit)]
    /\ UNCHANGED <<now, SPOONACULAR_API_KEY, packageSizeCache, ingredientPriceCache,
                   calls, prev, cacheLog, shopping>>

NextUnits == ParseQuantity \/ ConvertUnit

SpecUnits == InitUnits /\ [][NextUnits]_vars

Parsed == usage.op = "parseQuantity" /\ usage.result # Null
Converted == usage.op = "convertUnit" /\ usage.result # Null

\* digits with an optional decimal point
WellFormedNumber(s) ==
    /\ \A i \in DOMAIN s : s[i] \in NumericSet
    /\ \E i \in DOMAIN s : IsDigit(s[i])
    /\ Cardinality({i \in DOMAIN s : s[i] = "."}) <= 1
\* the length of the longest prefix that is such a number, 0 when none is
NumericPrefixLen(s) ==
    LET ks == {k \in 1..Len(s) : WellFormedNumber(SubSeq(s, 1, k))}
    IN IF ks = {} THEN 0 ELSE CHOOSE k \in ks : \A j \in ks : j <= k
NonNegativeReal(x) == x.d > 0 /\ x.n >= 0

\* C23: parseQuantity returns, for a numeric prefix followed by optional
\* white space and a non-empty unit, the value of the prefix and the trimmed
\* remainder; for a text without numeric prefix, value 1 and the whole text;
\* value is always a non-negative real number.
C23_ParseAgreesWithReference ==
    Parsed =>
        LET s == usage.quantity
            k == NumericPrefixLen(s)
            rest == SubSeq(s, k + 1, Len(s))
        IN /\ NonNegativeReal(usage.result.value)
           /\ k = 0 => usage.result = [value |-> One, unit |-> s]
           /\ (k > 0 /\ Trim(rest) # <<>>) =>
                 usage.result = [value |-> ParseFloat(SubSeq(s, 1, k)), unit |-> Trim(rest)]


\* C24: convertUnit with the same source and target unit returns the value it
\* was given, whatever the unit and the ingredient, and does not warn.
C24_SameUnitIsIdentity ==
    (Converted /\ usage.fromUnit = usage.toUnit) =>
        /\ usage.result = usage.value
        /\ ~usage.warned

\* a conversion from a unit no rule knows to itself, for a name that
\* Object.prototype defines
C24_Witness ==
    /\ Converted
    /\ usage.fromUnit = <<"p", "i", "e", "c", "e", "s">> /\ usage.toUnit = usage.fromUnit
    /\ usage.ingredient = S_constructor
    /\ usage.value = Num(2, 1) /\ usage.result = Num(2, 1)
    /\ ~usage.warned

GramsPerBulb(name) == IF name \in DOMAIN BulbToG THEN BulbToG[name] ELSE Num(45, 1)

\* C25: between distinct units without a rule convertUnit returns the value
\* unchanged; from piece or bulb to g or kg it multiplies by the gram weight
\* listed for the ingredient, 100 g per piece and 45 g per bulb when the
\* ingredient is not listed.
C25_NoRuleKeepsValueAndDefaultsApply ==
    (Converted /\ usage.fromUnit # usage.toUnit) =>
        LET scale == IF usage.toUnit = S_kg THEN Num(1, 1000) ELSE One
        IN /\ ~RuleApplies(usage.fromUnit, usage.toUnit) => usage.result = usage.value
           /\ (usage.fromUnit = S_piece /\ usage.toUnit \in {S_g, S_kg}) =>
                 usage.result = Mul(Mul(usage.value, GramsPerPiece(usage.ingredient)), scale)
           /\ (usage.fromUnit = S_bulb /\ usage.toUnit \in {S_g, S_kg}) =>
                 usage.result = Mul(Mul(usage.value, GramsPerBulb(usage.ingredient)), scale)


(***************************************************************************)
(* Lazy expiry, under SpecCache.                                           *)
(***************************************************************************)
\* the step is an operation on the cache, as the log records it
Operation == cacheLog' # cacheLog
\* the step is get(k)
GetOf(k) == Operation /\ cacheLog'.last.op = "get" /\ cacheLog'.last.key = k
\* the step may remove or replace the entry of k: get(k), set(k, _) or clear
Touches(k) ==
    /\ Operation
    /\ \/ cacheLog'.last.op \in {"get", "set"} /\ cacheLog'.last.key = k
       \/ cacheLog'.last.op = "clear"

\* C26: a step that only lets time pass changes neither the map nor the
\* snapshot; an entry of the map, expired or not, stays as it is, and its key
\* stays in the snapshot if it was there, through every step that is not a
\* get or set of its key or a clear; a get of a key whose expiry has passed
\* removes the entry, returns null and (its write succeeding) leaves a
\* snapshot without the key; a get of an absent or unexpired key changes
\* neither the map nor the snapshot.
C26_LazyExpiry ==
    [][/\ ~Operation => TargetCache' = TargetCache
       /\ \A k \in DOMAIN TargetCache.cache :
             ~Touches(k) =>
                /\ k \in DOMAIN TargetCache'.cache
                /\ TargetCache'.cache[k] = TargetCache.cache[k]
                /\ k \in DOMAIN TargetCache.file => k \in DOMAIN TargetCache'.file
       /\ \A k \in CacheKeys :
             GetOf(k) =>
                IF k \in DOMAIN TargetCache.cache /\ now > TargetCache.cache[k].expiry
                THEN /\ cacheLog'.last.ret = Null
                     /\ DOMAIN TargetCache'.cache = DOMAIN TargetCache.cache \ {k}
                     /\ cacheLog'.last.written =>
                           DOMAIN TargetCache'.file = DOMAIN TargetCache'.cache
                ELSE /\ TargetCache' = TargetCache
                     /\ cacheLog'.last.ret =
                           IF k \in DOMAIN TargetCache.cache
                           THEN TargetCache.cache[k].value ELSE Null]_vars

\* a get of one key has just returned while the entry of another key, whose
\* expiry has passed, is still in the map and in the snapshot
C26_Witness ==
    /\ cacheLog.last # Null
    /\ cacheLog.last.op = "get" /\ cacheLog.last.at = now
    /\ \E k \in DOMAIN TargetCache.cache \cap DOMAIN TargetCache.file :
          /\ k # cacheLog.last.key
          /\ now > TargetCache.cache[k].expiry


\* C29: every entry of getAllPackageSizes that comes from the package cache
\* is one get would still return: its expiry has not passed.
C29_ListingHasNoExpiredEntry ==
    \A key \in DOMAIN getAllPackageSizes :
        key \notin DOMAIN PACKAGE_SIZES =>
            /\ key \in DOMAIN packageSizeCache.cache
            /\ now <= packageSizeCache.cache[key].expiry


(***************************************************************************)
(* SpecPair: getPackageInfo called once by each of two callers, in any     *)
(* interleaving of their steps, each remote request answered on its own.   *)
(* The package cache starts empty.                                         *)
(***************************************************************************)
Callers == {1, 2}
PairNames == {S_oat_milk, <<" ", "O", "a", "t", " ", "M", "I", "L", "K", " ">>, S_constructor}
\* a price-cache snapshot whose entry has a price that is no number
PairPriceCaches ==
    {EmptyMap,
     S_oat_milk :> [value |-> [price |-> NaN, unit |-> S_piece, source |-> S_spoonacular],
                    expiry |-> PriceTtl]}

InitPair ==
    /\ now = 0
    /\ SPOONACULAR_API_KEY \in BOOLEAN
    /\ packageSizeCache = NewCache
    /\ ingredientPriceCache \in {[cache |-> m, file |-> m] : m \in PairPriceCaches}
    /\ calls = IdleCalls
    /\ prev = EmptyMap
    /\ cacheLog = IdleLog
    /\ usage = Null
    /\ shopping = IdleShopping

NextPair ==
    \/ \E c \in Callers, raw \in PairNames : calls[c].pc = "idle" /\ GetPackageInfo(c, raw)
    \/ \E c \in Callers : AfterPriceInfo(c)
    \/ \E c \in Callers, r \in SearchResponses : SearchResponse(c, r)
    \/ \E c \in Callers, r \in DetailResponses : DetailResponse(c, r)

SpecPair == InitPair /\ [][NextPair]_vars

\* a string of at least one character
IsSizeString(v) == v \in Seq(LetterSet \cup NumericSet \cup {" "}) /\ v # <<>>
\* a number other than NaN and the infinities
IsNumericPrice(v) == DOMAIN v = {"n", "d"} /\ v.d > 0

\* C27: every descriptor getPackageInfo returns has a size that is a string
\* and a price that is a number.
C27_DescriptorHasSizeAndPrice ==
    \A c \in Callers :
        calls[c].pc = "done" =>
            /\ calls[c].result # Null
            /\ {"size", "price"} \subseteq DOMAIN calls[c].result
            /\ IsSizeString(calls[c].result.size)
            /\ IsNumericPrice(calls[c].result.price)


\* both calls have returned, for the same normalized name, which the static
\* table does not hold (the package cache was empty when the first began)
PairRace ==
    /\ \A c \in Callers : calls[c].pc = "done"
    /\ calls[1].normalizedName = calls[2].normalizedName
    /\ StaticLookup(calls[1].normalizedName) = Null
\* the call computed its descriptor on a path that writes the package cache
WroteCache(c) == calls[c].result.source \in {ESTIMATED, SPOONACULAR_API}

\* C30 as stated: once both calls have returned the package cache holds an
\* entry for the name whose size and price are those of each descriptor.
C30_EntryEqualsBothDescriptors ==
    PairRace =>
        /\ calls[1].normalizedName \in DOMAIN packageSizeCache.cache
        /\ \A c \in Callers :
              packageSizeCache.cache[calls[1].normalizedName].value = SizePrice(calls[c].result)

\* C30 amended: once both calls have returned, the package cache holds an
\* entry for the name exactly when one of them did not end in the catch
\* block; the entry then has the size and price of a descriptor computed on
\* a writing path, a descriptor tagged "package cache" has the size and
\* price the other call wrote, and every step in which a call returns from a
\* writing path leaves its size and price in the entry (the last writer's).
C30_LastWriterWins ==
    /\ [](PairRace =>
            LET n == calls[1].normalizedName
            IN /\ n \in DOMAIN packageSizeCache.cache
                     <=> \E c \in Callers : calls[c].result.source # ESTIMATED_AFTER_ERROR
               /\ n \in DOMAIN packageSizeCache.cache =>
                     packageSizeCache.cache[n].value \in
                        {SizePrice(calls[c].result) : c \in {d \in Callers : WroteCache(d)}}
               /\ \A c \in Callers :
                     calls[c].result.source = PACKAGE_CACHE =>
                        \E d \in Callers \ {c} :
                           WroteCache(d) /\ SizePrice(calls[c].result) = SizePrice(calls[d].result))
    /\ [][\A c \in Callers :
             (calls[c].pc # "done" /\ calls'[c].pc = "done" /\ WroteCache(c)') =>
                /\ calls'[c].normalizedName \in DOMAIN packageSizeCache'.cache
                /\ packageSizeCache'.cache[calls'[c].normalizedName].value =
                      SizePrice(calls'[c].result)]_vars

\* both calls queried the remote product data for the same name and wrote
\* descriptors of different sizes; the entry has the size of one of them
C30_Witness ==
    /\ PairRace
    /\ \A c \in Callers : calls[c].searched /\ WroteCache(c)
    /\ calls[1].result.size # calls[2].result.size
    /\ calls[1].result.source = SPOONACULAR_API /\ calls[2].result.source = ESTIMATED
    /\ packageSizeCache.cache[calls[1].normalizedName].value = SizePrice(calls[1].result)


(***************************************************************************)
(* SpecShopHang: calculateShoppingCost where the remote product requests   *)
(* of the first ingredient may stay unanswered for ever.  The event loop   *)
(* runs every synchronous head and every queued continuation, and every    *)
(* request of another ingredient is answered in the end.  Each of these    *)
(* steps happens once per ingredient and disables itself, so its weak      *)
(* fairness is the same as its guard being false infinitely often; for     *)
(* ShopGetPackageInfo, ShopDetailResponse and ShopSettle, whose steps are  *)
(* HeadPending, DetailPending and SettlePending followed by the code of    *)
(* the step, the condition is written in that form.                        *)
(***************************************************************************)
\* the ingredient whose remote product lookup may never complete
Hanging(i) == i = 1

SpecShopHang ==
    /\ SpecShop
    /\ \A i \in Slots :
          /\ []<>~HeadPending(i)
          /\ WF_vars(ShopAfterPriceInfo(i))
          /\ []<>~SettlePending(i)
    /\ \A i \in {j \in Slots : ~Hanging(j)} :
          /\ WF_vars(ShopSearchResponse(i))
          /\ []<>~DetailPending(i)

\* C28: whether or not the remote product lookup of one ingredient ever
\* completes, once the package lookups have started the getPackageInfo of
\* every other ingredient returns and its element of packageCosts is built.
C28_OthersComplete ==
    \A i \in {j \in Slots : ~Hanging(j)} :
        []((shopping.pc = "packages" /\ i \in Indices) =>
              <>(calls[i].pc = "done" /\ shopping.packageCosts[i] # Null))

\* the first ingredient waits for its product search while the second, of
\* another name, has its descriptor from the remote product data, written
\* to the package cache, and its element of packageCosts
C28_Witness ==
    /\ shopping.pc = "packages"
    /\ Len(shopping.ingredients) = MaxIngredients
    /\ \E h \in Indices :
          /\ Hanging(h)
          /\ calls[h].pc = "awaitSearch"
          /\ \A i \in Indices \ {h} :
                /\ calls[i].pc = "done" /\ calls[i].wrote
                /\ calls[i].result.source = SPOONACULAR_API
                /\ calls[i].normalizedName \in DOMAIN packageSizeCache.cache
                /\ shopping.packageCosts[i] # Null

=============================================================================
